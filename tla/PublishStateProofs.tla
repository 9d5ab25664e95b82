------------------------- MODULE PublishStateProofs -------------------------
(***************************************************************************)
(* Proofs about PublishState, for any number of events, threads, viewers   *)
(* and instants.                                                           *)
(*                                                                         *)
(* Columns of several requests mix, so almost no relation between columns  *)
(* survives. What saves a pending stop from being forgotten is that only   *)
(* the event loop makes a row stop_pending, that it does one thing at a    *)
(* time, and that it always writes the due time when it does; the          *)
(* invariant is that argument, said of what each request holds in hand.    *)
(***************************************************************************)
EXTENDS PublishState, TLAPS

\* An event that says the room is empty, and the due time it leads to.
Empties(e, due) == e \in Events /\ sent[e].kind = "emptied" /\ sent[e].at + Grace = due

\* The columns a request is about to write.
HonestJob(j) ==
    /\ j.old.there => j.new.there /\ row.there
    /\ j.forced \subseteq {"started", "due"}
    /\ "due" \in j.forced => j.new.status = "stop_pending" /\ j.new.due # NoTime
    /\ j.new.status = "stop_pending" =>
         j.new.there /\ (j.new = j.old \/ "due" \in j.forced)
    /\ j.new.due # NoTime => j.new.due = j.old.due \/ Empties(j.event, j.new.due)
    /\ j.old.due # NoTime => \E e \in seen : Empties(e, j.old.due)

\* A request thread never makes a row stop_pending, and clears the due time
\* only together with the status.
ThreadJob(j) ==
    /\ j.event = NoEvent
    /\ j.new.status # "stop_pending"
    /\ j.new.status = j.old.status => j.new = j.old

\* The event loop knows whether the row is stop_pending.
LoopJob(j) ==
    /\ row.status = "stop_pending" => j.old.status = "stop_pending"
    /\ j.event # NoEvent => j.event \notin seen /\ sent[j.event].kind # "unsent"

JobsOK ==
    \A w \in Workers :
        /\ job[w].stage = "read" =>
             /\ HonestJob(job[w])
             /\ w \in Threads => ThreadJob(job[w])
             /\ w = Loop => LoopJob(job[w])
        /\ job[w].stage = "granted" =>
             /\ w \in Threads => job[w].event = NoEvent
             /\ job[w].event # NoEvent => job[w].event \in seen /\ raised[job[w].event] = 0

\* A due time in the row is the end of the grace period of an event that was
\* accepted.
DueIsGraced == row.due # NoTime => \E e \in seen : Empties(e, row.due)

\* A sweep found its stop due.
SweepIsDue ==
    \A w \in Workers :
        Sweeping(w) => job[w].stage = "read" /\ job[w].old.due # NoTime /\ job[w].old.due <= now

\* An event that was never accepted raised no command; the replay cache only
\* holds events that were emitted.
SeenOnce ==
    /\ \A e \in Events : raised[e] <= 1 /\ (raised[e] = 1 => e \in seen)
    /\ \A e \in seen : sent[e].kind # "unsent"

IInv ==
    /\ TypeOK
    /\ PendingHasDue
    /\ DueIsGraced
    /\ JobsOK
    /\ SweepIsDue
    /\ SeenOnce

-----------------------------------------------------------------------------
USE LoopAssumption, NoEventAssumption, NoTimeAssumption, SchedulerAssumption,
    BoundsAssumption

\* What a request holds in hand has the types of a row.
LEMMA JobFields ==
    ASSUME TypeOK, NEW w \in Workers, job[w] # Idle
    PROVE  /\ job[w] \in Job
           /\ job[w].old \in Row /\ job[w].new \in Row
           /\ job[w].event \in Events \union {NoEvent}
           /\ job[w].stage \in {"read", "granted"}
  BY DEF TypeOK, Job

\* An UPDATE takes each column from the request that changes it.
LEMMA MergeFields ==
    ASSUME NEW old \in Row, NEW new \in Row, NEW cur \in Row, NEW forced
    PROVE  LET r == Merge(old, new, forced, cur)
               Written(f) == new[f] # old[f] \/ f \in forced
           IN  /\ r \in Row
               /\ r.there = IF Written("there") THEN new.there ELSE cur.there
               /\ r.status = IF Written("status") THEN new.status ELSE cur.status
               /\ r.due = IF Written("due") THEN new.due ELSE cur.due
  BY DEF Merge, Row, Columns

\* No row and no request: the invariant holds.
LEMMA InitIInv == Init => IInv
<1> SUFFICES ASSUME Init PROVE IInv
  OBVIOUS
<1> USE DEF Init
<1>1. TypeOK
  BY DEF TypeOK, NoRow, Row, Statuses, Kinds, Times, Idle, Job
<1>2. PendingHasDue /\ DueIsGraced
  BY DEF PendingHasDue, DueIsGraced, NoRow
<1>3. JobsOK /\ SweepIsDue
  BY DEF JobsOK, SweepIsDue, Sweeping, Idle
<1>4. SeenOnce
  BY DEF SeenOnce
<1> QED
  BY <1>1, <1>2, <1>3, <1>4 DEF IInv

-----------------------------------------------------------------------------
\* A request that reads the row and prepares honest columns keeps the
\* invariant.
LEMMA BeginStep ==
    ASSUME IInv, NEW w \in Workers, NEW e \in Events \union {NoEvent}, NEW new \in Row,
           NEW forced \in SUBSET {"started", "due"}, NEW sends \in {"none", "start", "stop"},
           Begin(w, e, new, forced, sends),
           HonestJob(job'[w]),
           w \in Threads => ThreadJob(job'[w]),
           w = Loop => LoopJob(job'[w]),
           (e = NoEvent /\ sends = "stop") => (row.due # NoTime /\ row.due <= now)
    PROVE  IInv'
<1> DEFINE J == [stage |-> "read", event |-> e, old |-> row, new |-> new,
                 forced |-> forced, sends |-> sends]
<1> USE DEF IInv
<1>1. job' = [job EXCEPT ![w] = J] /\ job'[w] = J
  BY DEF Begin, TypeOK
<1>2. UNCHANGED <<now, viewers, enabled, sent, seen, row, last, raised, faults>>
  BY DEF Begin, world
<1>3. J \in Job
  BY DEF Job, Columns, TypeOK
<1>4. TypeOK'
  BY <1>1, <1>2, <1>3 DEF TypeOK
<1>5. PendingHasDue' /\ DueIsGraced' /\ SeenOnce'
  BY <1>2 DEF PendingHasDue, DueIsGraced, SeenOnce, Empties
<1>6. JobsOK'
  <2> SUFFICES ASSUME NEW v \in Workers
               PROVE  /\ job'[v].stage = "read" =>
                           /\ HonestJob(job[v])'
                           /\ v \in Threads => ThreadJob(job[v])'
                           /\ v = Loop => LoopJob(job[v])'
                      /\ job'[v].stage = "granted" =>
                           /\ v \in Threads => job'[v].event = NoEvent
                           /\ job'[v].event # NoEvent =>
                                job'[v].event \in seen' /\ raised'[job'[v].event] = 0
    BY DEF JobsOK
  <2>1. CASE v = w
    BY <1>1, <1>2, <2>1 DEF HonestJob, ThreadJob, LoopJob, Empties
  <2>2. CASE v # w
    <3>1. job'[v] = job[v]
      BY <1>1, <2>2 DEF TypeOK
    <3> QED
      BY <1>2, <3>1 DEF JobsOK, HonestJob, ThreadJob, LoopJob, Empties
  <2> QED
    BY <2>1, <2>2
<1>7. SweepIsDue'
  BY <1>1, <1>2 DEF SweepIsDue, Sweeping, TypeOK, Idle
<1> QED
  BY <1>4, <1>5, <1>6, <1>7

\* What happens in the world, or to nobody, keeps the invariant: an emitted
\* event was not known to anybody.
LEMMA WorldStep ==
    ASSUME IInv, TypeOK', now' >= now, UNCHANGED <<seen, row, job, raised>>,
           \A e \in Events : sent[e].kind # "unsent" => sent'[e] = sent[e]
    PROVE  IInv'
<1> USE DEF IInv
<1>0. \A e, due : Empties(e, due) => Empties(e, due)'
  BY DEF Empties
<1>1. PendingHasDue' /\ DueIsGraced'
  BY <1>0 DEF PendingHasDue, DueIsGraced
<1>2. SeenOnce'
  BY DEF SeenOnce, TypeOK
<1>3. SweepIsDue'
  <2> SUFFICES ASSUME NEW w \in Workers, Sweeping(w)
               PROVE  job[w].stage = "read" /\ job[w].old.due # NoTime /\ job[w].old.due <= now'
    BY DEF SweepIsDue, Sweeping
  <2>1. job[w].stage = "read" /\ job[w].old.due # NoTime /\ job[w].old.due <= now
    BY DEF SweepIsDue
  <2>2. job[w].old.due \in Nat
    BY <2>1, JobFields DEF Sweeping, Row
  <2> QED
    BY <2>1, <2>2 DEF TypeOK, Times
<1>4. JobsOK'
  <2> SUFFICES ASSUME NEW w \in Workers, job[w].stage = "read"
               PROVE  /\ HonestJob(job[w])'
                      /\ w = Loop => LoopJob(job[w])'
    BY DEF JobsOK, ThreadJob
  <2>1. job[w].event \in Events \union {NoEvent}
    BY JobFields DEF Idle
  <2>2. HonestJob(job[w])'
    BY <1>0 DEF JobsOK, HonestJob
  <2>3. w = Loop => LoopJob(job[w])'
    BY <2>1 DEF JobsOK, LoopJob
  <2> QED
    BY <2>2, <2>3
<1> QED
  BY <1>1, <1>2, <1>3, <1>4

\* Writing back the changed columns keeps the invariant: only the event loop
\* brings stop_pending, and always with a due time.
LEMMA CommitStep == ASSUME IInv, NEW w \in Workers, Commit(w) PROVE IInv'
<1> DEFINE j == job[w]
           Written(f) == j.new[f] # j.old[f] \/ f \in j.forced
<1> USE DEF IInv
<1>0. /\ j.stage = "read" /\ j \in Job /\ j.old \in Row /\ j.new \in Row /\ row \in Row
      /\ j.event \in Events \union {NoEvent}
      /\ UNCHANGED <<now, viewers, enabled, sent, faults>>
      /\ seen' = seen \union ({j.event} \ {NoEvent})
      /\ HonestJob(j) /\ (w \in Threads => ThreadJob(j)) /\ (w = Loop => LoopJob(j))
  BY JobFields DEF Commit, world, JobsOK, Idle, TypeOK
<1>1. /\ row' \in Row
      /\ row'.there = IF Written("there") THEN j.new.there ELSE row.there
      /\ row'.status = IF Written("status") THEN j.new.status ELSE row.status
      /\ row'.due = IF Written("due") THEN j.new.due ELSE row.due
  <2>1. row' = Merge(j.old, j.new, j.forced, row)
    BY DEF Commit
  <2>2. row \in Row /\ j.old \in Row /\ j.new \in Row
    BY <1>0
  <2> HIDE DEF IInv
  <2> QED
    BY ONLY <2>1, <2>2, MergeFields, SMTT(30)
<1>2. job' = [job EXCEPT ![w] = Idle] \/ job' = [job EXCEPT ![w].stage = "granted"]
  BY DEF Commit
<1>3. TypeOK'
  <2>1. job' \in [Workers -> Job \union {Idle}]
    BY <1>0, <1>2 DEF TypeOK, Job
  <2>2. raised' \in [Events -> Nat]
    BY <1>0 DEF Commit, Raised, TypeOK
  <2>3. last' \in {"none", "start", "stop"}
    BY DEF Commit, TypeOK
  <2> QED
    BY <1>0, <1>1, <2>1, <2>2, <2>3 DEF TypeOK
<1>4. w \in Threads \/ w = Loop
  BY DEF Workers
<1>5. row.there => row'.there
  BY <1>0, <1>1 DEF HonestJob, Row
<1>6. PendingHasDue'
  <2> SUFFICES ASSUME row'.status = "stop_pending" PROVE row'.there /\ row'.due # NoTime
    BY DEF PendingHasDue
  <2>1. CASE Written("status")
    <3>1. "status" \notin j.forced
      BY <1>0 DEF HonestJob
    <3> QED
      BY <1>0, <1>1, <1>5, <2>1, <3>1 DEF HonestJob
  <2>2. CASE ~Written("status")
    <3>1. row.status = "stop_pending" /\ row.there /\ row.due # NoTime
      BY <1>1, <2>2 DEF PendingHasDue
    <3>2. CASE w \in Threads
      BY <1>0, <1>1, <1>5, <2>2, <3>1, <3>2 DEF HonestJob, ThreadJob
    <3>3. CASE w = Loop
      BY <1>0, <1>1, <1>5, <2>2, <3>1, <3>3 DEF HonestJob, LoopJob
    <3> QED
      BY <1>4, <3>2, <3>3
  <2> QED
    BY <2>1, <2>2
<1>7. DueIsGraced'
  <2> SUFFICES ASSUME row'.due # NoTime
               PROVE  \E e \in seen' : Empties(e, row'.due)
    BY <1>0 DEF DueIsGraced, Empties
  <2>1. CASE Written("due")
    <3>1. CASE Empties(j.event, j.new.due)
      BY <1>0, <1>1, <2>1, <3>1 DEF Empties
    <3>2. CASE j.new.due = j.old.due
      BY <1>0, <1>1, <2>1, <3>2 DEF HonestJob
    <3> QED
      BY <1>0, <1>1, <2>1, <3>1, <3>2 DEF HonestJob
  <2>2. CASE ~Written("due")
    BY <1>0, <1>1, <2>2 DEF DueIsGraced
  <2> QED
    BY <2>1, <2>2
<1>u. \A e \in Events : e \notin seen => raised[e] = 0
  <2> SUFFICES ASSUME NEW e \in Events, e \notin seen PROVE raised[e] = 0
    OBVIOUS
  <2>1. raised[e] \in Nat /\ raised[e] <= 1 /\ raised[e] # 1
    BY DEF SeenOnce, TypeOK
  <2> QED
    BY <2>1
<1>8. SeenOnce'
  <2>1. CASE j.event = NoEvent
    <3>1. seen' = seen /\ raised' = raised
      BY <1>0, <2>1 DEF Commit, Raised
    <3> QED
      BY <1>0, <3>1 DEF SeenOnce
  <2>2. CASE j.event # NoEvent
    <3>1. /\ j.event \in Events /\ j.event \notin seen /\ sent[j.event].kind # "unsent"
          /\ seen' = seen \union {j.event}
      BY <1>0, <1>4, <2>2 DEF ThreadJob, LoopJob
    <3>2. raised[j.event] = 0
      BY <3>1, <1>u
    <3>3. raised' = raised \/ raised' = [raised EXCEPT ![j.event] = 1]
      BY <2>2, <3>1, <3>2 DEF Commit, Raised, TypeOK
    <3> QED
      BY <1>0, <3>1, <3>2, <3>3 DEF SeenOnce, TypeOK
  <2> QED
    BY <2>1, <2>2
<1>9. SweepIsDue'
  <2> SUFFICES ASSUME NEW v \in Workers, Sweeping(v)'
               PROVE  (job[v].stage = "read" /\ job[v].old.due # NoTime /\ job[v].old.due <= now)'
    BY DEF SweepIsDue
  <2>1. v # w
    <3>1. CASE j.sends = "start"
      <4>1. job' = [job EXCEPT ![w].stage = "granted"]
        BY <3>1 DEF Commit
      <4>2. job'[w].sends = "start"
        BY <1>0, <3>1, <4>1 DEF Job, TypeOK
      <4> QED
        BY <4>2 DEF Sweeping
    <3>2. CASE j.sends # "start"
      BY <3>2 DEF Commit, Sweeping, TypeOK
    <3> QED
      BY <3>1, <3>2
  <2>2. job'[v] = job[v]
    BY <1>2, <2>1 DEF TypeOK
  <2> QED
    BY <1>0, <2>2 DEF SweepIsDue, Sweeping
<1>10. JobsOK'
  <2> SUFFICES ASSUME NEW v \in Workers
               PROVE  /\ job'[v].stage = "read" =>
                           /\ HonestJob(job[v])'
                           /\ v \in Threads => ThreadJob(job[v])'
                           /\ v = Loop => LoopJob(job[v])'
                      /\ job'[v].stage = "granted" =>
                           /\ v \in Threads => job'[v].event = NoEvent
                           /\ job'[v].event # NoEvent =>
                                job'[v].event \in seen' /\ raised'[job'[v].event] = 0
    BY DEF JobsOK
  <2>1. CASE v = w
    <3>1. CASE j.sends = "start"
      <4>1. job' = [job EXCEPT ![w].stage = "granted"] /\ raised' = raised
        BY <1>0, <3>1 DEF Commit
      <4>2. job'[v].stage = "granted" /\ job'[v].event = j.event
        BY <1>0, <2>1, <4>1 DEF Job, TypeOK
      <4>3. j.event # NoEvent => j.event \in seen' /\ raised[j.event] = 0
        BY <1>0, <1>4, <1>u DEF ThreadJob, LoopJob
      <4> QED
        BY <1>0, <2>1, <4>1, <4>2, <4>3 DEF ThreadJob
    <3>2. CASE j.sends # "start"
      BY <2>1, <3>2 DEF Commit, TypeOK, Idle
    <3> QED
      BY <3>1, <3>2
  <2>2. CASE v # w
    <3>1. job'[v] = job[v]
      BY <1>2, <2>2 DEF TypeOK
    <3>2. ASSUME job[v].stage = "read" PROVE HonestJob(job[v])'
      BY <1>0, <1>5, <3>1, <3>2 DEF JobsOK, HonestJob, Empties
    <3>3. ASSUME job[v].stage = "read", v = Loop PROVE LoopJob(job[v])'
      <4>1. w \in Threads
        BY <1>4, <2>2, <3>3
      <4>2. row'.status = "stop_pending" => row.status = "stop_pending"
        BY <1>0, <1>1, <4>1 DEF ThreadJob, HonestJob
      <4>3. seen' = seen
        BY <1>0, <4>1 DEF ThreadJob
      <4> QED
        BY <1>0, <3>1, <3>3, <4>2, <4>3 DEF JobsOK, LoopJob
    <3>4. job[v].stage = "read" /\ v \in Threads => ThreadJob(job[v])'
      BY <3>1 DEF JobsOK, ThreadJob
    <3>5. ASSUME job[v].stage = "granted"
          PROVE  /\ v \in Threads => job[v].event = NoEvent
                 /\ job[v].event # NoEvent =>
                      job[v].event \in seen' /\ raised'[job[v].event] = 0
      <4>1. CASE v \in Threads
        BY <3>5, <4>1 DEF JobsOK
      <4>2. CASE v = Loop
        <5>1. j.event = NoEvent
          BY <1>0, <1>4, <2>2, <4>2 DEF ThreadJob
        <5>2. raised' = raised /\ seen' = seen
          BY <1>0, <5>1 DEF Commit, Raised
        <5> QED
          BY <3>5, <4>2, <5>2 DEF JobsOK
      <4> QED
        BY <4>1, <4>2 DEF Workers
    <3> QED
      BY <3>1, <3>2, <3>3, <3>4, <3>5
  <2> QED
    BY <2>1, <2>2
<1> QED
  BY <1>3, <1>6, <1>7, <1>8, <1>9, <1>10

\* A request that ends, with its second commit or with a failure, keeps the
\* invariant.
LEMMA EndStep ==
    ASSUME IInv, NEW w \in Workers, CommitStart(w) \/ Fail(w)
    PROVE  IInv'
<1> DEFINE j == job[w]
<1> USE DEF IInv
<1>1. /\ job' = [job EXCEPT ![w] = Idle]
      /\ UNCHANGED <<now, viewers, enabled, sent, seen, row>>
      /\ last' \in {last, "start"} /\ faults' \in 0..MaxFaults
      /\ raised' = raised \/ (j.stage = "granted" /\ raised' = Raised(j.event))
  BY DEF CommitStart, Fail, world, TypeOK
<1>2. raised' # raised =>
        /\ w = Loop /\ j.event \in seen /\ raised[j.event] = 0
        /\ raised' = [raised EXCEPT ![j.event] = 1]
  <2> SUFFICES ASSUME raised' # raised
               PROVE  /\ w = Loop /\ j.event \in seen /\ raised[j.event] = 0
                      /\ raised' = [raised EXCEPT ![j.event] = 1]
    OBVIOUS
  <2>1. j.stage = "granted" /\ j.event # NoEvent
    BY <1>1 DEF Raised
  <2>2. w = Loop /\ j.event \in seen /\ raised[j.event] = 0
    BY <2>1 DEF JobsOK, Workers
  <2> QED
    BY <1>1, <2>1, <2>2 DEF Raised, TypeOK
<1>3. \A v \in Workers : job'[v] = Idle \/ (v # w /\ job'[v] = job[v])
  BY <1>1 DEF TypeOK
<1>4. TypeOK'
  <2>1. raised' \in [Events -> Nat]
    BY <1>2 DEF TypeOK
  <2> QED
    BY <1>1, <2>1 DEF TypeOK
<1>5. PendingHasDue' /\ DueIsGraced'
  BY <1>1 DEF PendingHasDue, DueIsGraced, Empties
<1>6. SeenOnce'
  BY <1>1, <1>2 DEF SeenOnce, TypeOK
<1>7. SweepIsDue'
  BY <1>1, <1>3 DEF SweepIsDue, Sweeping
<1>8. JobsOK'
  <2> SUFFICES ASSUME NEW v \in Workers, v # w, job'[v] = job[v], job[v] # Idle
               PROVE  /\ job[v].stage = "read" =>
                           /\ HonestJob(job[v])'
                           /\ v \in Threads => ThreadJob(job[v])'
                           /\ v = Loop => LoopJob(job[v])'
                      /\ job[v].stage = "granted" =>
                           /\ v \in Threads => job[v].event = NoEvent
                           /\ job[v].event # NoEvent =>
                                job[v].event \in seen' /\ raised'[job[v].event] = 0
    BY <1>3 DEF JobsOK, Idle
  <2>1. job[v].stage = "read" =>
          /\ HonestJob(job[v])'
          /\ v \in Threads => ThreadJob(job[v])'
          /\ v = Loop => LoopJob(job[v])'
    BY <1>1 DEF JobsOK, HonestJob, ThreadJob, LoopJob, Empties
  <2>2. ASSUME job[v].stage = "granted"
        PROVE  /\ v \in Threads => job[v].event = NoEvent
               /\ job[v].event # NoEvent =>
                    job[v].event \in seen' /\ raised'[job[v].event] = 0
    BY <1>1, <1>2, <2>2 DEF JobsOK, Workers
  <2> QED
    BY <2>1, <2>2
<1> QED
  BY <1>4, <1>5, <1>6, <1>7, <1>8

-----------------------------------------------------------------------------
\* What the event loop reads and prepares is honest.
LEMMA WebhookStep ==
    ASSUME IInv, NEW e \in Events, JoinWebhook(e) \/ LeaveWebhook(e) \/ OtherWebhook(e)
    PROVE  IInv'
<1> USE DEF IInv
<1>0. /\ Loop \in Workers /\ Loop \notin Threads /\ e # NoEvent
      /\ e \notin seen /\ sent[e].kind # "unsent" /\ sent[e] \in [kind : Kinds, at : Times]
      /\ row \in Row
  BY DEF JoinWebhook, LeaveWebhook, OtherWebhook, Accepts, Workers, TypeOK
<1>1. ASSUME NEW new \in Row, NEW forced \in SUBSET {"started", "due"},
             NEW sends \in {"none", "start", "stop"}, Begin(Loop, e, new, forced, sends),
             row.there => new.there,
             "due" \in forced => new.status = "stop_pending" /\ new.due # NoTime,
             new.status = "stop_pending" => new.there /\ (new = row \/ "due" \in forced),
             new.due # NoTime => new.due = row.due \/ Empties(e, new.due)
      PROVE  IInv'
  <2>1. job'[Loop] = [stage |-> "read", event |-> e, old |-> row, new |-> new,
                      forced |-> forced, sends |-> sends]
    BY <1>0, <1>1 DEF Begin, TypeOK
  <2>2. HonestJob(job'[Loop])
    BY <1>1, <2>1 DEF HonestJob, DueIsGraced
  <2>3. LoopJob(job'[Loop])
    BY <1>0, <2>1 DEF LoopJob
  <2> QED
    BY <1>0, <1>1, <2>2, <2>3, BeginStep
<1>2. CASE JoinWebhook(e)
  <2>1. CASE row.status = "stop_pending" /\ Begin(Loop, e, Cancelled(row), {}, "none")
    BY <1>0, <1>1, <2>1 DEF Cancelled, Row, Statuses
  <2>2. CASE row.status \in Live /\ Begin(Loop, e, row, {}, "none")
    BY <1>0, <1>1, <2>2 DEF Live
  <2>3. CASE row.status = "idle" /\ Begin(Loop, e, Starting(row), {"started"}, "start")
    BY <1>0, <1>1, <2>3 DEF Starting, Row, Statuses
  <2> QED
    BY <1>2, <2>1, <2>2, <2>3 DEF JoinWebhook
<1>3. CASE LeaveWebhook(e)
  <2>1. CASE sent[e].kind = "emptied" /\ Begin(Loop, e, Scheduled(row, sent[e].at), {"due"}, "none")
    <3>0. sent[e].at \in Nat /\ sent[e].at + Grace \in 0..(MaxTime + Grace)
      BY <1>0 DEF Times
    <3>1. Scheduled(row, sent[e].at) \in Row
      BY <1>0, <3>0 DEF Scheduled, Row, Statuses
    <3>2. /\ Scheduled(row, sent[e].at).there
          /\ Scheduled(row, sent[e].at).status = "stop_pending"
          /\ Scheduled(row, sent[e].at).due = sent[e].at + Grace
      BY <1>0 DEF Scheduled, Row
    <3>3. Empties(e, Scheduled(row, sent[e].at).due) /\ Scheduled(row, sent[e].at).due # NoTime
      BY <2>1, <3>0, <3>2 DEF Empties
    <3>4. {"due"} \in SUBSET {"started", "due"} /\ "none" \in {"none", "start", "stop"}
      OBVIOUS
    <3> HIDE DEF Scheduled
    <3> QED
      BY <1>1, <2>1, <3>1, <3>2, <3>3, <3>4
  <2>2. CASE Begin(Loop, e, Reset(row), {}, "stop")
    BY <1>0, <1>1, <2>2 DEF Reset, Row, Statuses
  <2> QED
    BY <1>3, <2>1, <2>2 DEF LeaveWebhook
<1>4. CASE OtherWebhook(e)
  BY <1>0, <1>1, <1>4 DEF OtherWebhook, PendingHasDue
<1> QED
  BY <1>2, <1>3, <1>4

\* What a thread reads and prepares is honest: it never asks for stop_pending.
LEMMA ThreadStep ==
    ASSUME IInv, NEW w \in Workers, ViewToken(w) \/ Maintain(w)
    PROVE  IInv'
<1> USE DEF IInv
<1>0. row \in Row /\ job[w] = Idle /\ NoEvent \in Events \union {NoEvent}
  BY DEF ViewToken, Maintain, Begin, TypeOK
<1>1. ASSUME NEW new \in Row, NEW forced \in SUBSET {"started"},
             NEW sends \in {"none", "start", "stop"}, Begin(w, NoEvent, new, forced, sends),
             row.there => new.there,
             new.status # "stop_pending",
             new.status = row.status => new = row,
             new.due # NoTime => new.due = row.due,
             sends = "stop" => row.due # NoTime /\ row.due <= now
      PROVE  IInv'
  <2>1. job'[w] = [stage |-> "read", event |-> NoEvent, old |-> row, new |-> new,
                   forced |-> forced, sends |-> sends]
    BY <1>1 DEF Begin, TypeOK
  <2>2. HonestJob(job'[w])
    BY <1>1, <2>1 DEF HonestJob, DueIsGraced
  <2>3. ThreadJob(job'[w]) /\ LoopJob(job'[w])
    BY <1>1, <2>1 DEF ThreadJob, LoopJob
  <2> QED
    BY <1>0, <1>1, <2>2, <2>3, BeginStep
<1>2. CASE ViewToken(w)
  <2>1. CASE row.status = "stop_pending"
    <3>1. Begin(w, NoEvent, Cancelled(row), {}, "start")
      BY <1>0, <1>2, <2>1 DEF ViewToken, Cancelled, Live, Row
    <3>2. /\ Cancelled(row) \in Row /\ Cancelled(row).there = row.there
          /\ Cancelled(row).status \in Live /\ Cancelled(row).due = NoTime
      BY <1>0 DEF Cancelled, Row, Statuses, Live
    <3> QED
      BY <1>1, <2>1, <3>1, <3>2 DEF Live
  <2>2. CASE row.status \in Live
    <3>1. Begin(w, NoEvent, row, {}, "start")
      BY <1>2, <2>2 DEF ViewToken, Live
    <3> QED
      BY <1>0, <1>1, <2>2, <3>1 DEF Live
  <2>3. CASE row.status = "idle"
    <3>1. Begin(w, NoEvent, Starting(row), {"started"}, "start")
      BY <1>2, <2>3 DEF ViewToken, Live
    <3>2. /\ Starting(row) \in Row /\ Starting(row).there
          /\ Starting(row).status = "starting" /\ Starting(row).due = NoTime
      BY DEF Starting, Row, Statuses
    <3>3. {"started"} \in SUBSET {"started"} /\ "start" \in {"none", "start", "stop"}
      OBVIOUS
    <3> QED
      BY <1>1, <2>3, <3>1, <3>2, <3>3
  <2> QED
    BY <1>0, <2>1, <2>2, <2>3 DEF Row, Statuses, Live
<1>3. CASE Maintain(w)
  <2>1. /\ Begin(w, NoEvent, Swept(row), {}, IF enabled THEN "stop" ELSE "none")
        /\ row.status = "stop_pending" /\ row.due # NoTime /\ row.due <= now
    BY <1>3 DEF Maintain
  <2>2. /\ Swept(row) \in Row /\ Swept(row).there = row.there
        /\ Swept(row).status = "idle" /\ Swept(row).due = NoTime
    BY <1>0 DEF Swept, Row, Statuses, TypeOK
  <2>3. (IF enabled THEN "stop" ELSE "none") \in {"none", "start", "stop"}
    OBVIOUS
  <2> QED
    BY <1>1, <2>1, <2>2, <2>3
<1> QED
  BY <1>2, <1>3

\* Every step keeps the invariant.
LEMMA StepIInv == IInv /\ [Next]_vars => IInv'
<1> SUFFICES ASSUME IInv, [Next]_vars PROVE IInv'
  OBVIOUS
<1> USE DEF IInv
<1>1. CASE Tick
  BY <1>1, WorldStep DEF Tick, TypeOK, Times
<1>2. ASSUME NEW e \in Events, NEW kind \in Kinds, Emit(e, kind), viewers' \in 0..MaxViewers
      PROVE  IInv'
  BY <1>2, WorldStep DEF Emit, TypeOK, Times
<1>3. ASSUME NEW e \in Events,
             ViewerJoins(e) \/ ViewerLeaves(e) \/ GatewayJoins(e) \/ RoomFinishes(e)
      PROVE  IInv'
  BY <1>2, <1>3 DEF ViewerJoins, ViewerLeaves, GatewayJoins, RoomFinishes, Kinds, TypeOK
<1>4. CASE AdminSwitches
  BY <1>4, WorldStep DEF AdminSwitches, TypeOK, Times
<1>5. ASSUME NEW e \in Events, JoinWebhook(e) \/ LeaveWebhook(e) \/ OtherWebhook(e)
      PROVE  IInv'
  BY <1>5, WebhookStep
<1>6. ASSUME NEW w \in Workers,
             ViewToken(w) \/ Maintain(w) \/ Commit(w) \/ CommitStart(w) \/ Fail(w)
      PROVE  IInv'
  BY <1>6, ThreadStep, CommitStep, EndStep
<1>7. CASE UNCHANGED vars
  BY <1>7, WorldStep DEF vars, world, TypeOK, Times
<1> QED
  BY <1>1, <1>3, <1>4, <1>5, <1>6, <1>7 DEF Next

\* Every variable keeps its type, whatever interleaves.
THEOREM TypeCorrect == Spec => []TypeOK
<1>1. IInv => TypeOK
  BY DEF IInv
<1> QED
  BY <1>1, InitIInv, StepIInv, PTL DEF Spec

\* A pending stop is never invisible to the maintenance job.
THEOREM PendingStopsFindable == Spec => []PendingHasDue
<1>1. IInv => PendingHasDue
  BY DEF IInv
<1> QED
  BY <1>1, InitIInv, StepIInv, PTL DEF Spec

\* A webhook event raises at most one command.
THEOREM EventsRaiseOnce == Spec => []RaisedOnce
<1>1. IInv => RaisedOnce
  BY DEF IInv, SeenOnce, RaisedOnce
<1> QED
  BY <1>1, InitIInv, StepIInv, PTL DEF Spec

\* The maintenance job never stops a camera before a grace period is over.
THEOREM GraceKept == Spec => []GraceRespected
<1>1. IInv => GraceRespected
  <2> SUFFICES ASSUME IInv, NEW w \in Workers, Sweeping(w)
               PROVE  \E e \in seen : sent[e].kind = "emptied" /\ sent[e].at + Grace <= now
    BY DEF GraceRespected
  <2>1. job[w].stage = "read" /\ job[w].old.due # NoTime /\ job[w].old.due <= now
    BY DEF IInv, SweepIsDue
  <2>2. PICK e \in seen : Empties(e, job[w].old.due)
    BY <2>1 DEF IInv, JobsOK, HonestJob
  <2> QED
    BY <2>1, <2>2 DEF Empties
<1> QED
  BY <1>1, InitIInv, StepIInv, PTL DEF Spec
=============================================================================
