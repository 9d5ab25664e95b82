------------------------ MODULE AccessRequestsProofs ------------------------
(***************************************************************************)
(* Proofs about AccessRequests, for any number of submissions, addresses   *)
(* and handlers.                                                           *)
(*                                                                         *)
(* The argument is about what a handler knows when it commits: what it     *)
(* found is still there or was taken away on record, what it did not find  *)
(* it inserts itself, and it has GitHub's answer.                          *)
(***************************************************************************)
EXTENDS AccessRequests, FiniteSetTheorems, TLAPS

\* A handler that decides a request deals with the address of that request; a
\* rejection inserts nothing; what an approval or invitation does not insert it
\* has found; before it commits, GitHub has answered.
Known(h) ==
    job[h] # Idle =>
        /\ job[h].kind = "invite" => job[h].on = NoRequest
        /\ job[h].kind # "invite" => job[h].on \in Requests /\ job[h].to = email[job[h].on]
        /\ job[h].kind = "reject" => job[h].stage = "deciding"
        /\ job[h].kind = "reject" => ~job[h].newAccount /\ ~job[h].newRole
        /\ (job[h].kind # "reject" /\ job[h].stage # "looking") =>
             /\ job[h].newAccount \/ account[job[h].to] # "none"
             /\ job[h].newRole \/ job[h].to \in role \union revoked
        /\ (job[h].kind # "reject" /\ job[h].stage = "deciding") => job[h].to \in invited

HandlersOK == \A h \in Handlers : Known(h)

\* Two submissions with one address that are stored or about to be have met.
SubmissionsOK ==
    \A p, q \in Requests :
        (p # q /\ email[p] = email[q] /\ {state[p], state[q]} \subseteq {"checked", "pending"})
            => email[p] \in crowded

IInv ==
    /\ TypeOK
    /\ HandlersOK
    /\ SubmissionsOK
    /\ ApprovedIsWhole
    /\ AccountIsBacked
    /\ DuplicateHasOriginal

USE MaxRequestsAssumption DEF NoRequest

\* The steps of Next, one by one, for the case distinctions below.
LEMMA Steps ==
    ASSUME [Next]_vars
    PROVE  \/ UNCHANGED vars
           \/ \E q \in Requests : Submission(q)
           \/ \E h \in Handlers, q \in Requests, k \in {"approve", "reject"} : Read(h, k, q)
           \/ \E h \in Handlers, e \in Emails : Invite(h, e)
           \/ \E h \in Handlers : Serve(h)
           \/ \E e \in Emails : SignIn(e)
           \/ \E e \in Emails : Disable(e)
           \/ \E e \in Emails : GrantRole(e)
           \/ \E e \in Emails : RevokeRole(e)
BY DEF Next

\* What a step of an open transaction is.
LEMMA ServeSteps ==
    ASSUME NEW h \in Handlers, Serve(h)
    PROVE  \/ Look(h) \/ Insert(h) \/ Invited(h) \/ Commit(h)
           \/ /\ job[h] # Idle /\ job' = [job EXCEPT ![h] = Idle]
              /\ UNCHANGED <<email, state, account, role, history>>
              /\ invited \subseteq invited'
              /\ TypeOK => invited' \subseteq Emails
<1>1. CASE LookDisabled(h)
    BY <1>1 DEF LookDisabled, Ends, At, TypeOK
<1>2. CASE InsertClash(h)
    BY <1>2 DEF InsertClash, Ends, At, TypeOK
<1>3. CASE CommitFails(h)
    BY <1>3 DEF CommitFails, Ends, At, TypeOK
<1>4. CASE InviteFails(h)
    <2>1. TypeOK => job[h].to \in Emails
        BY <1>4 DEF InviteFails, At, TypeOK, Job, Idle
    <2>2. TypeOK => invited \subseteq Emails
        BY DEF TypeOK
    <2> QED
        BY <1>4, <2>1, <2>2 DEF InviteFails, Ends, At
<1> QED
    BY <1>1, <1>2, <1>3, <1>4 DEF Serve

\* An open transaction touches no job but its own, and keeps to its request.
LEMMA ServeJob ==
    ASSUME TypeOK, NEW h \in Handlers, Serve(h)
    PROVE  /\ \A x \in Handlers : x # h => job'[x] = job[x]
           /\ job'[h] = Idle \/ job'[h].on = job[h].on
<1>1. CASE Look(h) \/ Insert(h) \/ Invited(h)
    <2>1. PICK s, a, b : Moves(h, s, a, b)
        BY <1>1 DEF Look, Insert, Invited, Advances
    <2> QED
        BY <2>1 DEF Moves, TypeOK
<1>2. CASE job' = [job EXCEPT ![h] = Idle]
    BY <1>2 DEF TypeOK
<1> QED
    BY <1>1, <1>2, ServeSteps DEF Commit

-----------------------------------------------------------------------------
(***************************************************************************)
(* Type correctness.                                                       *)
(***************************************************************************)
LEMMA BusyType ==
    ASSUME TypeOK, NEW h \in Handlers, job[h] # Idle
    PROVE  job[h] \in Job
BY DEF TypeOK

LEMMA MovesType ==
    ASSUME TypeOK, NEW h \in Handlers, job[h] # Idle,
           NEW s \in {"looking", "inserting", "inviting", "deciding"},
           NEW a \in BOOLEAN, NEW r \in BOOLEAN, Moves(h, s, a, r)
    PROVE  job' \in [Handlers -> Job \union {Idle}]
<1>1. job[h] \in Job
    BY BusyType
<1>2. [stage |-> s, kind |-> job[h].kind, on |-> job[h].on, to |-> job[h].to,
       newAccount |-> a, newRole |-> r] \in Job
    BY <1>1 DEF Job
<1> QED
    BY <1>2 DEF Moves, TypeOK

LEMMA StartsType ==
    ASSUME TypeOK, NEW h \in Handlers, NEW k \in {"approve", "reject", "invite"},
           NEW q \in Requests \union {NoRequest}, NEW e \in Emails, Starts(h, k, q, e)
    PROVE  TypeOK'
<1>1. [stage |-> IF k = "reject" THEN "deciding" ELSE "looking", kind |-> k,
       on |-> q, to |-> e, newAccount |-> FALSE, newRole |-> FALSE] \in Job
    BY DEF Job
<1> QED
    BY <1>1 DEF Starts, TypeOK, history

LEMMA TypeStep == TypeOK /\ [Next]_vars => TypeOK'
<1> SUFFICES ASSUME TypeOK, [Next]_vars PROVE TypeOK'
    OBVIOUS
<1>1. CASE UNCHANGED vars
    BY <1>1 DEF vars, TypeOK
<1>2. ASSUME NEW q \in Requests, Submission(q) PROVE TypeOK'
    <2>1. \E s \in States : Becomes(q, s)
        BY <1>2 DEF Submission, CheckFresh, CheckDuplicate, CheckAmbiguous, Store, StoreFails,
                    States, Stored
    <2>2. crowded' \subseteq Emails
        BY <1>2 DEF Submission, CheckFresh, CheckDuplicate, CheckAmbiguous, Store, StoreFails,
                    Crowds, TypeOK
    <2> QED
        BY <2>1, <2>2 DEF Becomes, TypeOK
<1>3. ASSUME NEW h \in Handlers, NEW q \in Requests, NEW k \in {"approve", "reject"},
             Read(h, k, q)
      PROVE  TypeOK'
    BY <1>3, StartsType DEF Read, TypeOK
<1>4. ASSUME NEW h \in Handlers, NEW e \in Emails, Invite(h, e) PROVE TypeOK'
    BY <1>4, StartsType DEF Invite
<1>5. ASSUME NEW h \in Handlers, Serve(h) PROVE TypeOK'
    <2>1. CASE Look(h)
        <3>1. job' \in [Handlers -> Job \union {Idle}]
            BY <2>1, MovesType DEF Look, At
        <3> QED
            BY <2>1, <3>1 DEF Look, TypeOK, history
    <2>2. CASE Insert(h) \/ Invited(h)
        <3>1. job[h] \in Job
            BY <2>2, BusyType DEF Insert, Invited, At
        <3>2. job' \in [Handlers -> Job \union {Idle}]
            BY <2>2, <3>1, MovesType DEF Insert, Invited, At, Advances, Job
        <3>3. invited' \subseteq Emails
            BY <2>2, <3>1 DEF Insert, Invited, TypeOK, Job
        <3> QED
            BY <2>2, <3>2, <3>3 DEF Insert, Invited, TypeOK, history
    <2>3. CASE Commit(h)
        <3>1. job[h] \in Job
            BY <2>3, BusyType DEF Commit, At
        <3>2. state' \in [Requests -> States]
            BY <2>3 DEF Commit, TypeOK, States, Stored
        <3>3. account' \in [Emails -> {"none", "active", "disabled"}]
            BY <2>3, <3>1 DEF Commit, TypeOK, Job
        <3>4. role' \subseteq Emails
            BY <2>3, <3>1 DEF Commit, TypeOK, Job
        <3> QED
            BY <2>3, <3>2, <3>3, <3>4 DEF Commit, TypeOK, history
    <2>4. CASE /\ job' = [job EXCEPT ![h] = Idle]
               /\ UNCHANGED <<email, state, account, role, history>>
               /\ invited' \subseteq Emails
        BY <2>4 DEF TypeOK, history
    <2> QED
        BY <1>5, <2>1, <2>2, <2>3, <2>4, ServeSteps
<1>6. ASSUME NEW e \in Emails, SignIn(e) \/ Disable(e) \/ GrantRole(e) \/ RevokeRole(e)
      PROVE  TypeOK'
    BY <1>6 DEF SignIn, Disable, GrantRole, RevokeRole, TypeOK, history
<1> QED
    BY <1>1, <1>2, <1>3, <1>4, <1>5, <1>6, Steps

-----------------------------------------------------------------------------
(***************************************************************************)
(* What only grows, and what a handler knows.                              *)
(***************************************************************************)
Grown ==
    /\ email' = email
    /\ \A e \in Emails : account[e] # "none" => account'[e] # "none"
    /\ role \union revoked \subseteq role' \union revoked'
    /\ invited \subseteq invited'
    /\ \A q \in Requests : state[q] \in Stored => state'[q] \in Stored

\* Accounts, rows and invitations stay; a role that is gone was taken away.
LEMMA Growth == TypeOK /\ [Next]_vars => Grown
<1> SUFFICES ASSUME TypeOK, [Next]_vars PROVE Grown
    OBVIOUS
<1>1. CASE UNCHANGED vars
    BY <1>1 DEF vars, Grown
<1>2. ASSUME NEW q \in Requests, Submission(q) PROVE Grown
    <2>1. \E s \in States : Becomes(q, s) /\ (state[q] \in Stored => s \in Stored)
        BY <1>2 DEF Submission, CheckFresh, CheckDuplicate, CheckAmbiguous, Store, StoreFails,
                    Arrives, States, Stored
    <2> QED
        BY <2>1 DEF Becomes, TypeOK, Grown
<1>3. ASSUME NEW h \in Handlers, NEW q \in Requests, NEW k \in {"approve", "reject"},
             Read(h, k, q)
      PROVE  Grown
    BY <1>3 DEF Read, Starts, history, Grown
<1>4. ASSUME NEW h \in Handlers, NEW e \in Emails, Invite(h, e) PROVE Grown
    BY <1>4 DEF Invite, Starts, history, Grown
<1>5. ASSUME NEW h \in Handlers, Serve(h) PROVE Grown
    <2>1. CASE Look(h) \/ Insert(h) \/ Invited(h)
        BY <2>1 DEF Look, Insert, Invited, history, Grown
    <2>2. CASE Commit(h)
        <3>1. \A e \in Emails : account[e] # "none" => account'[e] # "none"
            BY <2>2 DEF Commit, TypeOK
        <3>2. \A q \in Requests : state[q] \in Stored => state'[q] \in Stored
            BY <2>2 DEF Commit, Stored
        <3> QED
            BY <2>2, <3>1, <3>2 DEF Commit, history, Grown
    <2>3. CASE /\ UNCHANGED <<email, state, account, role, history>>
               /\ invited \subseteq invited'
        BY <2>3 DEF history, Grown
    <2> QED
        BY <1>5, <2>1, <2>2, <2>3, ServeSteps
<1>6. ASSUME NEW e \in Emails, SignIn(e) \/ Disable(e) \/ GrantRole(e) \/ RevokeRole(e)
      PROVE  Grown
    BY <1>6 DEF SignIn, Disable, GrantRole, RevokeRole, TypeOK, history, Grown
<1> QED
    BY <1>1, <1>2, <1>3, <1>4, <1>5, <1>6, Steps

\* A handler that does nothing keeps what it knows.
LEMMA KnownStays ==
    ASSUME TypeOK, Grown, NEW h \in Handlers, Known(h), job'[h] \in {job[h], Idle}
    PROVE  Known(h)'
<1>1. CASE job'[h] = Idle
    BY <1>1 DEF Known
<1>2. CASE job'[h] = job[h] /\ job[h] # Idle
    <2>1. job[h].to \in Emails
        BY <1>2, BusyType DEF Job
    <2> QED
        BY <1>2, <2>1 DEF Known, Grown
<1> QED
    BY <1>1, <1>2

LEMMA KnownStep ==
    ASSUME TypeOK, \A x \in Handlers : Known(x), [Next]_vars, NEW h \in Handlers
    PROVE  Known(h)'
<1>0. Grown
    BY Growth
<1>1. CASE UNCHANGED vars
    BY <1>1, <1>0, KnownStays DEF vars
<1>2. ASSUME NEW q \in Requests, Submission(q) PROVE Known(h)'
    <2>1. job' = job
        BY <1>2 DEF Submission, CheckFresh, CheckDuplicate, CheckAmbiguous, Store, StoreFails,
                    Becomes
    <2> QED
        BY <2>1, <1>0, KnownStays
<1>3. ASSUME NEW x \in Handlers, NEW k \in {"approve", "reject", "invite"},
             NEW q \in Requests \union {NoRequest}, NEW e \in Emails, Starts(x, k, q, e),
             k = "invite" => q = NoRequest,
             k # "invite" => q \in Requests /\ e = email[q]
      PROVE  Known(h)'
    <2>1. CASE x = h
        <3>1. job'[h] = [stage |-> IF k = "reject" THEN "deciding" ELSE "looking", kind |-> k,
                         on |-> q, to |-> e, newAccount |-> FALSE, newRole |-> FALSE]
            BY <1>3, <2>1 DEF Starts, TypeOK
        <3> QED
            BY <1>3, <3>1, <1>0 DEF Known, Grown
    <2>2. CASE x # h
        BY <1>3, <2>2, <1>0, KnownStays DEF Starts, TypeOK
    <2> QED
        BY <2>1, <2>2
<1>4. ASSUME NEW x \in Handlers, Serve(x) PROVE Known(h)'
    <2>1. CASE x # h
        <3>1. job'[h] = job[h]
            BY <1>4, <2>1, ServeSteps
               DEF Look, Insert, Invited, Commit, Moves, Advances, TypeOK
        <3> QED
            BY <3>1, <1>0, KnownStays
    <2>2. CASE x = h /\ Look(h)
        <3>1. job'[h] = [stage |-> "inserting", kind |-> job[h].kind, on |-> job[h].on,
                         to |-> job[h].to, newAccount |-> account[job[h].to] = "none",
                         newRole |-> job[h].to \notin role]
            BY <2>2 DEF Look, Moves, TypeOK
        <3>2. job[h] # Idle /\ job[h].stage = "looking" /\ Known(h)
            BY <2>2 DEF Look, At
        <3>3. job[h].kind # "reject"
            BY <3>2 DEF Known
        <3>4. /\ job'[h].stage = "inserting" /\ job'[h].kind = job[h].kind
              /\ job'[h].on = job[h].on /\ job'[h].to = job[h].to
              /\ job'[h].newAccount = (account[job[h].to] = "none")
              /\ job'[h].newRole = (job[h].to \notin role)
            BY <3>1
        <3>5. UNCHANGED <<email, account, role, revoked, invited>>
            BY <2>2 DEF Look, history
        <3> QED
            BY <3>2, <3>3, <3>4, <3>5 DEF Known
    <2>3. CASE x = h /\ (Insert(h) \/ Invited(h))
        <3>1. \E s \in {"inviting", "deciding"} :
                job'[h] = [stage |-> s, kind |-> job[h].kind, on |-> job[h].on,
                           to |-> job[h].to, newAccount |-> job[h].newAccount,
                           newRole |-> job[h].newRole]
            BY <2>3 DEF Insert, Invited, Advances, Moves, TypeOK
        <3>2. job[h] # Idle /\ job[h].stage \in {"inserting", "inviting"} /\ Known(h)
            BY <2>3 DEF Insert, Invited, At
        <3>3. job'[h].stage = "deciding" => job[h].to \in invited'
            BY <2>3, <3>1 DEF Insert, Invited, Advances, Moves, TypeOK
        <3>4. job[h].to \in Emails
            BY <3>2, BusyType DEF Job
        <3>5. PICK s \in {"inviting", "deciding"} :
                job'[h] = [stage |-> s, kind |-> job[h].kind, on |-> job[h].on,
                           to |-> job[h].to, newAccount |-> job[h].newAccount,
                           newRole |-> job[h].newRole]
            BY <3>1
        <3>6. /\ job'[h].stage = s /\ job'[h].kind = job[h].kind /\ job'[h].on = job[h].on
              /\ job'[h].to = job[h].to /\ job'[h].newAccount = job[h].newAccount
              /\ job'[h].newRole = job[h].newRole
            BY <3>5
        <3> QED
            BY <3>2, <3>3, <3>4, <3>6, <1>0 DEF Known, Grown
    <2>4. CASE x = h /\ Commit(h)
        BY <2>4, <1>0, KnownStays DEF Commit, TypeOK
    <2>5. CASE x = h /\ job' = [job EXCEPT ![h] = Idle]
        BY <2>5, <1>0, KnownStays DEF TypeOK
    <2> QED
        BY <1>4, <2>1, <2>2, <2>3, <2>4, <2>5, ServeSteps
<1>5. ASSUME NEW e \in Emails, SignIn(e) \/ Disable(e) \/ GrantRole(e) \/ RevokeRole(e)
      PROVE  Known(h)'
    <2>1. job' = job
        BY <1>5 DEF SignIn, Disable, GrantRole, RevokeRole
    <2> QED
        BY <2>1, <1>0, KnownStays
<1> QED
    BY <1>1, <1>2, <1>3, <1>4, <1>5, Steps DEF Read, Invite, TypeOK

-----------------------------------------------------------------------------
(***************************************************************************)
(* The invariant, one part at a time.                                      *)
(***************************************************************************)
LEMMA SubmissionsStep ==
    ASSUME TypeOK, SubmissionsOK, [Next]_vars
    PROVE  SubmissionsOK'
<1>1. CASE UNCHANGED <<email, state, crowded>>
    BY <1>1 DEF SubmissionsOK
<1>2. ASSUME NEW q \in Requests, Submission(q) PROVE SubmissionsOK'
    <2>1. CASE CheckFresh(q)
        <3>1. \A p \in Requests : email[p] = email[q] => state[p] # "pending"
            BY <2>1 DEF CheckFresh, Pending
        <3> QED
            BY <2>1, <3>1 DEF CheckFresh, Crowds, Becomes, SubmissionsOK, TypeOK
    <2>2. CASE CheckDuplicate(q) \/ CheckAmbiguous(q) \/ StoreFails(q)
        BY <2>2 DEF CheckDuplicate, CheckAmbiguous, StoreFails, Becomes, SubmissionsOK, TypeOK
    <2>3. CASE Store(q)
        BY <2>3 DEF Store, Becomes, SubmissionsOK, TypeOK
    <2> QED
        BY <1>2, <2>1, <2>2, <2>3 DEF Submission
<1>3. ASSUME NEW h \in Handlers, Commit(h) PROVE SubmissionsOK'
    BY <1>3 DEF Commit, SubmissionsOK, history
<1>4. ASSUME NEW h \in Handlers, Serve(h), ~Commit(h) PROVE UNCHANGED <<email, state, crowded>>
    BY <1>4, ServeSteps DEF Look, Insert, Invited, history
<1> QED
    BY <1>1, <1>2, <1>3, <1>4, Steps
       DEF vars, history, Read, Invite, Starts, SignIn, Disable, GrantRole, RevokeRole

\* A request becomes approved only when a handler commits that knows.
LEMMA ApprovedStep ==
    ASSUME TypeOK, HandlersOK, ApprovedIsWhole, [Next]_vars
    PROVE  ApprovedIsWhole'
<1>0. Grown
    BY Growth
<1>1. CASE \A q \in Requests : state'[q] = "approved" => state[q] = "approved"
    BY <1>0, <1>1 DEF ApprovedIsWhole, Grown, TypeOK
<1>2. ASSUME NEW h \in Handlers, Commit(h) PROVE ApprovedIsWhole'
    <2> SUFFICES ASSUME NEW q \in Requests, state'[q] = "approved"
                 PROVE  /\ email'[q] \in invited'
                        /\ account'[email'[q]] # "none"
                        /\ email'[q] \in role' \union revoked'
        BY DEF ApprovedIsWhole
    <2>1. CASE state[q] = "approved"
        BY <2>1, <1>0 DEF ApprovedIsWhole, Grown, TypeOK
    <2>2. CASE state[q] # "approved"
        <3>1. job[h] # Idle /\ job[h].stage = "deciding" /\ job[h].on = q /\ job[h].kind # "reject"
            BY <1>2, <2>2 DEF Commit, At
        <3>2. job[h].to = email[q] /\ email[q] \in Emails
            BY <3>1 DEF HandlersOK, Known, TypeOK, Requests
        <3>3. /\ job[h].to \in invited
              /\ job[h].newAccount \/ account[job[h].to] # "none"
              /\ job[h].newRole \/ job[h].to \in role \union revoked
            BY <3>1 DEF HandlersOK, Known
        <3> QED
            BY <1>2, <3>2, <3>3 DEF Commit, TypeOK, history
    <2> QED
        BY <2>1, <2>2
<1>3. ASSUME NEW q \in Requests, Submission(q)
      PROVE  \A p \in Requests : state'[p] = "approved" => state[p] = "approved"
    BY <1>3 DEF Submission, CheckFresh, CheckDuplicate, CheckAmbiguous, Store, StoreFails,
                Becomes, TypeOK
<1>4. ASSUME NEW h \in Handlers, Serve(h), ~Commit(h) PROVE state' = state
    BY <1>4, ServeSteps DEF Look, Insert, Invited
<1> QED
    BY <1>1, <1>2, <1>3, <1>4, Steps
       DEF vars, Read, Invite, Starts, SignIn, Disable, GrantRole, RevokeRole

\* An account appears when its owner signs in or a handler commits that knows.
LEMMA BackedStep ==
    ASSUME TypeOK, HandlersOK, AccountIsBacked, [Next]_vars
    PROVE  AccountIsBacked'
<1>0. Grown
    BY Growth
<1>1. signedIn \subseteq signedIn'
    <2>1. ASSUME NEW h \in Handlers, Serve(h) PROVE signedIn' = signedIn
        BY <2>1, ServeSteps DEF Look, Insert, Invited, Commit, history
    <2> QED
        BY <2>1, Steps DEF vars, history, Read, Invite, Starts, SignIn, Disable, GrantRole,
             RevokeRole, Submission, CheckFresh, CheckDuplicate, CheckAmbiguous, Store,
             StoreFails, Becomes
<1>2. CASE \A e \in Emails : account'[e] # "none" => account[e] # "none"
    BY <1>0, <1>1, <1>2 DEF AccountIsBacked, Grown
<1>3. ASSUME NEW h \in Handlers, Commit(h) PROVE AccountIsBacked'
    <2> SUFFICES ASSUME NEW e \in Emails, account'[e] # "none"
                 PROVE  e \in signedIn' \union invited'
        BY DEF AccountIsBacked
    <2>1. CASE account[e] # "none"
        BY <2>1, <1>0, <1>1 DEF AccountIsBacked, Grown
    <2>2. CASE account[e] = "none"
        <3>1. job[h] # Idle /\ job[h].stage = "deciding" /\ job[h].to = e /\ job[h].newAccount
            BY <1>3, <2>2 DEF Commit, At, TypeOK
        <3> QED
            BY <3>1, <1>0 DEF HandlersOK, Known, Grown
    <2> QED
        BY <2>1, <2>2
<1>4. ASSUME NEW e \in Emails, SignIn(e) PROVE AccountIsBacked'
    BY <1>4 DEF SignIn, AccountIsBacked, TypeOK
<1>5. ASSUME NEW h \in Handlers, Serve(h), ~Commit(h) PROVE account' = account
    BY <1>5, ServeSteps DEF Look, Insert, Invited
<1>6. ASSUME NEW e \in Emails, Disable(e)
      PROVE  \A d \in Emails : account'[d] # "none" => account[d] # "none"
    BY <1>6 DEF Disable, TypeOK
<1> QED
    BY <1>2, <1>3, <1>4, <1>5, <1>6, Steps
       DEF vars, Read, Invite, Starts, GrantRole, RevokeRole, Submission, CheckFresh,
           CheckDuplicate, CheckAmbiguous, Store, StoreFails, Becomes

\* What a duplicate was found beside stays.
LEMMA DuplicateStep ==
    ASSUME TypeOK, DuplicateHasOriginal, [Next]_vars
    PROVE  DuplicateHasOriginal'
<1>0. Grown
    BY Growth
<1>1. CASE \A q \in Requests : state'[q] = "merged" => state[q] = "merged"
    BY <1>0, <1>1 DEF DuplicateHasOriginal, Grown
<1>2. ASSUME NEW q \in Requests, CheckDuplicate(q) PROVE DuplicateHasOriginal'
    <2>1. PICK p \in Requests : email[p] = email[q] /\ state[p] \in Stored
        <3>1. Pending(email[q]) # {}
            BY <1>2, FS_EmptySet DEF CheckDuplicate
        <3> QED
            BY <3>1 DEF Pending, Stored
    <2> QED
        BY <1>0, <1>2, <2>1
           DEF CheckDuplicate, Becomes, DuplicateHasOriginal, Grown, TypeOK
<1>3. ASSUME NEW q \in Requests, Submission(q), ~CheckDuplicate(q)
      PROVE  \A p \in Requests : state'[p] = "merged" => state[p] = "merged"
    BY <1>3 DEF Submission, CheckFresh, CheckAmbiguous, Store, StoreFails, Becomes, TypeOK
<1>4. ASSUME NEW h \in Handlers, Serve(h)
      PROVE  \A p \in Requests : state'[p] = "merged" => state[p] = "merged"
    BY <1>4, ServeSteps DEF Look, Insert, Invited, Commit
<1> QED
    BY <1>1, <1>2, <1>3, <1>4, Steps
       DEF vars, Read, Invite, Starts, SignIn, Disable, GrantRole, RevokeRole

-----------------------------------------------------------------------------
(***************************************************************************)
(* Theorems.                                                               *)
(***************************************************************************)
LEMMA Invariance == Spec => []IInv
<1>1. Init => IInv
    BY DEF Init, IInv, TypeOK, States, Stored, HandlersOK, Known, SubmissionsOK,
           ApprovedIsWhole, AccountIsBacked, DuplicateHasOriginal
<1>2. IInv /\ [Next]_vars => IInv'
    <2> SUFFICES ASSUME IInv, [Next]_vars PROVE IInv'
        OBVIOUS
    <2>1. TypeOK' /\ HandlersOK'
        BY TypeStep, KnownStep DEF IInv, HandlersOK
    <2>2. SubmissionsOK' /\ ApprovedIsWhole' /\ AccountIsBacked' /\ DuplicateHasOriginal'
        BY SubmissionsStep, ApprovedStep, BackedStep, DuplicateStep DEF IInv
    <2> QED
        BY <2>1, <2>2 DEF IInv
<1> QED
    BY <1>1, <1>2, PTL DEF Spec

\* Every variable keeps to the values its column can have.
THEOREM TypeCorrect == Spec => []TypeOK
<1>1. IInv => TypeOK
    BY DEF IInv
<1> QED
    BY <1>1, Invariance, PTL

\* An approved request is carried out entirely: invitation, account, role.
THEOREM ApprovalsAreWhole == Spec => []ApprovedIsWhole
<1>1. IInv => ApprovedIsWhole
    BY DEF IInv
<1> QED
    BY <1>1, Invariance, PTL

\* An account whose owner never signed in has an invitation.
THEOREM AccountsAreBacked == Spec => []AccountIsBacked
<1>1. IInv => AccountIsBacked
    BY DEF IInv
<1> QED
    BY <1>1, Invariance, PTL

\* A submission answered as a duplicate has an original that is stored.
THEOREM DuplicatesHaveOriginals == Spec => []DuplicateHasOriginal
<1>1. IInv => DuplicateHasOriginal
    BY DEF IInv
<1> QED
    BY <1>1, Invariance, PTL

\* Two pending rows with one address come from two submissions at once.
THEOREM SubmissionsAreUnique == Spec => []SerialSubmissionsAreUnique
<1>1. IInv => SerialSubmissionsAreUnique
    BY DEF IInv, SubmissionsOK, SerialSubmissionsAreUnique
<1> QED
    BY <1>1, Invariance, PTL

\* A decision no other handler has in hand stands.
THEOREM DecisionsStay == Spec => SettledStays
<1>1. ASSUME TypeOK, [Next]_vars, NEW q \in Requests, NEW v \in {"approved", "rejected"},
             Settled(q, v)
      PROVE  Settled(q, v)'
    <2>1. CASE UNCHANGED <<state, job>>
        BY <2>1, <1>1 DEF Settled, Busy
    <2>2. ASSUME NEW p \in Requests, Submission(p) PROVE Settled(q, v)'
        <3>0. state[p] \in {"unsent", "checked"}
            BY <2>2 DEF Submission, CheckFresh, CheckDuplicate, CheckAmbiguous,
                        Store, StoreFails, Arrives
        <3>1. p # q
            BY <1>1, <3>0 DEF Settled
        <3>2. state'[q] = state[q] /\ job' = job
            BY <1>1, <2>2, <3>1 DEF Submission, CheckFresh, CheckDuplicate, CheckAmbiguous, Store,
                  StoreFails, Becomes, TypeOK
        <3> QED
            BY <1>1, <3>2 DEF Settled, Busy
    <2>3. ASSUME NEW h \in Handlers, NEW k \in {"approve", "reject", "invite"},
                 NEW r \in Requests \union {NoRequest}, NEW e \in Emails,
                 Starts(h, k, r, e), r # q
          PROVE  Settled(q, v)'
        <3>0. job'[h] = [stage |-> IF k = "reject" THEN "deciding" ELSE "looking", kind |-> k,
                         on |-> r, to |-> e, newAccount |-> FALSE, newRole |-> FALSE]
            BY <2>3, <1>1 DEF Starts, TypeOK
        <3>1. job'[h].on # q /\ state' = state
            BY <2>3, <3>0 DEF Starts
        <3>2. \A x \in Handlers : x # h => job'[x] = job[x]
            BY <2>3, <1>1 DEF Starts, TypeOK
        <3> QED
            BY <1>1, <3>1, <3>2 DEF Settled, Busy
    <2>4. ASSUME NEW h \in Handlers, Serve(h) PROVE Settled(q, v)'
        <3>1. job[h] # Idle /\ job[h].on # q
            BY <1>1, <2>4, ServeSteps DEF Settled, Busy, Look, Insert, Invited, Commit, At
        <3>2. state'[q] = state[q]
            BY <2>4, <3>1, ServeSteps DEF Look, Insert, Invited, Commit
        <3>3. \A x \in Handlers : x # h => job'[x] = job[x]
            BY <1>1, <2>4, ServeJob
        <3>4. job'[h] = Idle \/ job'[h].on = job[h].on
            BY <1>1, <2>4, ServeJob
        <3> QED
            BY <1>1, <3>1, <3>2, <3>3, <3>4 DEF Settled, Busy
    <2>5. ASSUME NEW h \in Handlers, NEW k \in {"approve", "reject"}, NEW r \in Requests,
                 Read(h, k, r)
          PROVE  Settled(q, v)'
        <3>1. r # q /\ email[r] \in Emails
            BY <1>1, <2>5 DEF Settled, Read, TypeOK
        <3> QED
            BY <2>3, <2>5, <3>1 DEF Read
    <2>6. ASSUME NEW h \in Handlers, NEW e \in Emails, Invite(h, e) PROVE Settled(q, v)'
        BY <2>3, <2>6 DEF Invite, Requests
    <2> QED
        BY <1>1, <2>1, <2>2, <2>4, <2>5, <2>6, Steps
           DEF vars, SignIn, Disable, GrantRole, RevokeRole
<1>2. TypeOK /\ [Next]_vars => [\A q \in Requests, verdict \in {"approved", "rejected"} :
         Settled(q, verdict) => Settled(q, verdict)']_vars
    BY <1>1
<1> QED
    BY <1>2, TypeCorrect, PTL DEF Spec, SettledStays
=============================================================================
