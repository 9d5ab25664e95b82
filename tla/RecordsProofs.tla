--------------------------- MODULE RecordsProofs ---------------------------
(***************************************************************************)
(* Proofs about what is recorded once and relied upon later: the audit     *)
(* trail and the backups.                                                  *)
(***************************************************************************)
EXTENDS AuditTrail, Backups, FiniteSetTheorems, TLAPS

(***************************************************************************)
(* AuditTrail, for any number of writers, keys and rows.                   *)
(*                                                                         *)
(* The argument is about what a writer holds: the row it signs over is     *)
(* committed before it draws its own id, so it is older in both senses;    *)
(* and as long as nobody overlapped, it is the newest row until the writer *)
(* commits.                                                                *)
(***************************************************************************)
\* Ids are drawn once: those of committed rows and of open transactions differ.
IdsOK ==
    /\ log \subseteq 1..drawn
    /\ \A w \in Writers : (job[w] # Idle /\ job[w].stage = "inserted") =>
         /\ job[w].id \in 1..drawn /\ job[w].id \notin log
         /\ \A x \in Writers :
              (x # w /\ job[x] # Idle /\ job[x].stage = "inserted") => job[x].id # job[w].id

\* What a writer signed over is in the log, is older, and its key will be stored.
SignaturesOK ==
    \A w \in Writers : job[w] # Idle =>
        /\ job[w].prev # 0 => job[w].prev \in log
        /\ job[w].stage = "inserted" => job[w].prev < job[w].id
        /\ job[w].key \in keys \/ job[w].addsKey

\* Without overlap the one writer at work signed over the newest row, and its
\* id is the highest.
SerialOK ==
    ~overlapped =>
        /\ \A w, x \in Writers : job[w] # Idle /\ job[x] # Idle => w = x
        /\ \A w \in Writers : job[w] # Idle => job[w].prev = Newest(log)
        /\ \A w \in Writers : (job[w] # Idle /\ job[w].stage = "inserted") =>
             \A i \in log : i < job[w].id
        /\ \A i \in log : Linked(i)

IInv == TypeOK /\ IdsOK /\ SignaturesOK /\ SignedOverHistory /\ SerialOK

USE VersionsAssumption, MaxRowsAssumption

\* The newest of a set is one of its members, or 0.
LEMMA NewestMember ==
    ASSUME NEW S \in SUBSET Ids
    PROVE  Newest(S) \in S \union {0} /\ Newest(S) \in 0..MaxRows
<1>1. Newest(S) \in S \union {0}
    BY DEF Newest
<1>2. S \union {0} \subseteq 0..MaxRows
    BY DEF Ids
<1> QED
    BY <1>1, <1>2

\* Adding a row to a set of rows makes it the newest, or leaves the newest alone.
LEMMA NewestAdd ==
    ASSUME NEW S \in SUBSET Ids, NEW k \in Ids
    PROVE  Newest(S \union {k}) \in {k, Newest(S)}
<1>1. CASE \E i \in S : Top(i, S)
    <2>1. PICK i \in S : Top(i, S)
        BY <1>1
    <2>2. \A m, n \in S : Top(m, S) /\ Top(n, S) => m = n
        BY DEF Top, Ids
    <2>3. Newest(S) = i
        BY <2>1, <2>2 DEF Newest
    <2>4. \A m \in S \union {k} : Top(m, S \union {k}) => m \in {k, i}
        BY <2>1 DEF Top, Ids
    <2>5. Top(i, S \union {k}) \/ Top(k, S \union {k})
        BY <2>1 DEF Top, Ids
    <2> QED
        BY <2>3, <2>4, <2>5 DEF Newest
<1>2. CASE ~ \E i \in S : Top(i, S)
    <2>1. \A m \in S \union {k} : Top(m, S \union {k}) => m = k
        BY <1>2 DEF Top
    <2>2. Newest(S) = 0
        BY <1>2 DEF Newest
    <2> QED
        BY <2>1, <2>2 DEF Newest
<1> QED
    BY <1>1, <1>2

\* The empty log satisfies the invariant.
LEMMA InitIInv == Init => IInv
<1> SUFFICES ASSUME Init PROVE IInv
    OBVIOUS
<1>1. TypeOK
    <2>1. 0 \in 0..MaxRows
        OBVIOUS
    <2>2. job \in [Writers -> Job \union {Idle}]
        BY DEF Init
    <2> QED
        BY <2>1, <2>2 DEF Init, TypeOK
<1>2. \A w \in Writers : job[w] = Idle
    BY DEF Init
<1> QED
    BY <1>1, <1>2 DEF Init, IInv, IdsOK, SignaturesOK, SignedOverHistory, SerialOK

\* Every step of a writer and every restart preserves it.
LEMMA StepIInv == IInv /\ [Next]_vars => IInv'
<1> SUFFICES ASSUME IInv, [Next]_vars PROVE IInv'
    OBVIOUS
<1> USE DEF IInv, TypeOK, IdsOK, SignaturesOK, SignedOverHistory, SerialOK, Ids, Idle, Job, Linked,
    Below
<1>1. ASSUME NEW w \in Writers, Sign(w) PROVE IInv'
    <2>1. Newest(log) \in log \union {0}
        BY NewestMember
    <2>2. TypeOK'
        <3>1. Newest(log) \in 0..MaxRows
            BY NewestMember
        <3>2. [stage |-> "signed", prev |-> Newest(log), key |-> version,
               addsKey |-> version \notin keys, id |-> 0] \in Job
            BY <3>1
        <3>3. job' \in [Writers -> Job \union {Idle}]
            BY <1>1, <3>2 DEF Sign, Signs
        <3>4. overlapped' \in BOOLEAN
            BY <1>1 DEF Sign, Signs
        <3> QED
            BY <1>1, <3>3, <3>4 DEF Sign, Signs
    <2>3. IdsOK'
        BY <1>1 DEF Sign, Signs
    <2>4. SignaturesOK'
        BY <1>1, <2>1 DEF Sign, Signs
    <2>5. SignedOverHistory'
        BY <1>1 DEF Sign, Signs
    <2>6. SerialOK'
        BY <1>1 DEF Sign, Signs, Busy
    <2> QED
        BY <2>2, <2>3, <2>4, <2>5, <2>6
<1>2. ASSUME NEW w \in Writers, Insert(w) PROVE IInv'
    <2>1. TypeOK'
        <3>1. job[w] \in Job /\ drawn + 1 \in 0..MaxRows
            BY <1>2 DEF Insert
        <3>2. [stage |-> "inserted", prev |-> job[w].prev, key |-> job[w].key,
               addsKey |-> job[w].addsKey, id |-> drawn + 1] \in Job
            BY <3>1
        <3>3. job' \in [Writers -> Job \union {Idle}]
            BY <1>2, <3>2 DEF Insert
        <3> QED
            BY <1>2, <3>1, <3>3 DEF Insert
    <2>2. IdsOK'
        BY <1>2 DEF Insert
    <2>3. SignaturesOK'
        BY <1>2 DEF Insert
    <2>4. SignedOverHistory'
        BY <1>2 DEF Insert
    <2>5. SerialOK'
        BY <1>2 DEF Insert
    <2> QED
        BY <2>1, <2>2, <2>3, <2>4, <2>5
<1>3. ASSUME NEW w \in Writers, Commit(w) PROVE IInv'
    <2>1. TypeOK'
        <3>1. job[w] \in Job /\ job[w].id \in Ids
            BY <1>3 DEF Commit
        <3>2. job' \in [Writers -> Job \union {Idle}]
            BY <1>3 DEF Commit
        <3>3. prev' \in [Ids -> 0..MaxRows] /\ key' \in [Ids -> Versions]
            BY <1>3, <3>1 DEF Commit
        <3>4. log' \subseteq Ids /\ keys' \subseteq Versions
            BY <1>3, <3>1 DEF Commit
        <3> QED
            BY <1>3, <3>2, <3>3, <3>4 DEF Commit
    <2>2. IdsOK'
        <3>1. PICK k \in Ids : k = job[w].id
            BY <1>3 DEF Commit
        <3>2. log' = log \union {k} /\ drawn' = drawn /\ k \in 1..drawn
            BY <1>3, <3>1 DEF Commit
        <3>3. \A x \in Writers : job'[x] # Idle => job'[x] = job[x] /\ x # w
            BY <1>3 DEF Commit
        <3>4. \A x \in Writers : (x # w /\ job[x] # Idle /\ job[x].stage = "inserted")
                  => job[x].id # k
            BY <1>3, <3>1 DEF Commit
        <3> DEFINE open == {x \in Writers : job[x] # Idle /\ job[x].stage = "inserted"}
        <3>5. /\ \A x \in open : job[x].id \in 1..drawn /\ job[x].id \notin log
              /\ \A x, y \in open : x # y => job[x].id # job[y].id
            OBVIOUS
        <3>6. \A x \in open : x # w => job[x].id # k
            BY <3>4
        <3>7. ASSUME NEW x \in Writers, job'[x] # Idle, job'[x].stage = "inserted"
              PROVE  x \in open /\ x # w /\ job'[x] = job[x]
            BY <3>3, <3>7
        <3>8. log' \subseteq 1..drawn'
            BY <3>2
        <3> HIDE DEF open, IInv, TypeOK, Ids, Job, SignaturesOK, SignedOverHistory, SerialOK
        <3> QED
            BY <3>2, <3>5, <3>6, <3>7, <3>8
    <2>3. SignaturesOK'
        BY <1>3 DEF Commit
    <2>4. PICK k \in Ids : k = job[w].id
        BY <1>3 DEF Commit
    <2>5. /\ prev'[k] = job[w].prev /\ key'[k] = job[w].key
          /\ \A i \in log : prev'[i] = prev[i] /\ key'[i] = key[i]
          /\ log' = log \union {k} /\ keys \subseteq keys'
        BY <1>3, <2>4 DEF Commit
    <2>6. SignedOverHistory'
        <3>1. /\ job[w] # Idle /\ job[w].stage = "inserted"
              /\ keys' = keys \union (IF job[w].addsKey THEN {job[w].key} ELSE {})
            BY <1>3 DEF Commit
        <3>2. job[w].key \in keys'
            BY <3>1
        <3>3. job[w].prev # 0 => job[w].prev \in log /\ job[w].prev < k
            BY <2>4, <3>1
        <3> QED
            BY <2>5, <3>2, <3>3
    <2>7. SerialOK'
        <3>0. overlapped' = overlapped
            BY <1>3 DEF Commit
        <3> SUFFICES ASSUME ~overlapped PROVE SerialOK'
            BY <3>0
        <3>1. \A x \in Writers : job'[x] = Idle
            BY <1>3 DEF Commit
        <3>2. job[w].prev = Newest(log) /\ \A i \in log : i < k
            BY <1>3, <2>4 DEF Commit
        <3>3. log \subseteq Ids /\ k \in Nat /\ \A i \in log : Linked(i)
            OBVIOUS
        <3> HIDE DEF IdsOK, SignaturesOK, SignedOverHistory, TypeOK, IInv
        <3>4. \A i \in log : ~(k < i)
            BY <3>2, <3>3
        <3>5. \A i \in log : Linked(i)'
            <4> SUFFICES ASSUME NEW i \in log PROVE Linked(i)'
                OBVIOUS
            <4>1. Below(i)' = Below(i)
                BY <2>5, <3>4
            <4> QED
                BY <2>5, <3>3, <4>1
        <3>6. Linked(k)'
            <4>1. ~(k < k) /\ log' = log \union {k} /\ \A i \in log : i < k
                BY <2>5, <3>2, <3>3
            <4>2. \A j : j \in Below(k)' <=> j \in log
                BY <4>1
            <4>3. Below(k)' = log
                BY <4>2
            <4> QED
                BY <2>5, <3>2, <4>3
        <3> QED
            BY <2>5, <3>1, <3>5, <3>6
    <2> QED
        BY <2>1, <2>2, <2>3, <2>6, <2>7
<1>4. ASSUME NEW w \in Writers, Rollback(w) PROVE IInv'
    BY <1>4 DEF Rollback
<1>5. ASSUME NEW v \in Versions, Restart(v) PROVE IInv'
    BY <1>5 DEF Restart
<1>6. CASE UNCHANGED vars
    BY <1>6 DEF vars
<1> QED
    BY <1>1, <1>2, <1>3, <1>4, <1>5, <1>6 DEF Next

\* Init and every step establish the invariant, so it always holds.
THEOREM Invariance == Spec => []IInv
<1>1. Init => IInv
    BY InitIInv
<1>2. IInv /\ [Next]_vars => IInv'
    BY StepIInv
<1> QED
    BY <1>1, <1>2, PTL DEF Spec

\* Every variable keeps to the values its column can have.
THEOREM TypeCorrect == Spec => []TypeOK
<1>1. IInv => TypeOK
    BY DEF IInv
<1> QED
    BY <1>1, Invariance, PTL

\* A row is signed over an earlier row that is in the log, with a stored key.
THEOREM RowsAreSignedOverHistory == Spec => []SignedOverHistory
<1>1. IInv => SignedOverHistory
    BY DEF IInv
<1> QED
    BY <1>1, Invariance, PTL

\* Every range verifies as long as writers did not overlap.
THEOREM SerialChainVerifies == Spec => []SerialChainIsValid
<1>1. IInv => SerialChainIsValid
    BY DEF IInv, SerialOK, SignedOverHistory, SerialChainIsValid, Valid
<1> QED
    BY <1>1, Invariance, PTL

\* No later commit repairs a broken link: it adds one row, and what is then the
\* newest row below a broken one is what it was, or the row that was added,
\* which nobody can have signed over before it was there.
THEOREM BreaksNeverHeal == Spec => BreaksStay
<1>1. IInv /\ [Next]_vars => [\A i \in log : ~Linked(i) => ~Linked(i)']_vars
    <2> SUFFICES ASSUME IInv, Next, NEW i \in log, ~Linked(i) PROVE ~Linked(i)'
        BY DEF vars, Linked, Below
    <2> USE DEF IInv, TypeOK, IdsOK, SignedOverHistory, Ids, Idle, Job
    <2>1. ASSUME NEW w \in Writers, Commit(w) PROVE ~Linked(i)'
        <3>1. PICK k \in Ids : k = job[w].id
            BY <2>1 DEF Commit
        <3>2. /\ prev'[i] = prev[i] /\ k \notin log
              /\ log' = log \union {k}
            BY <2>1, <3>1 DEF Commit
        <3>3. Below(i) \in SUBSET Ids
            BY DEF Below
        <3>4. Below(i)' \in {Below(i), Below(i) \union {k}}
            BY <3>2 DEF Below
        <3>5. Newest(Below(i)') \in {k, Newest(Below(i))}
            BY <3>3, <3>4, NewestAdd
        <3>6. prev[i] # k
            <4>1. prev[i] = 0 \/ prev[i] \in log
                OBVIOUS
            <4> QED
                BY <4>1, <3>2 DEF Ids
        <3> QED
            BY <3>2, <3>5, <3>6 DEF Linked
    <2>2. ASSUME NEW w \in Writers, Sign(w) \/ Insert(w) \/ Rollback(w) PROVE ~Linked(i)'
        BY <2>2 DEF Sign, Signs, Insert, Rollback, Linked, Below
    <2>3. ASSUME NEW v \in Versions, Restart(v) PROVE ~Linked(i)'
        BY <2>3 DEF Restart, Linked, Below
    <2> QED
        BY <2>1, <2>2, <2>3 DEF Next
<1> QED
    BY <1>1, Invariance, PTL DEF Spec, BreaksStay

-----------------------------------------------------------------------------
(***************************************************************************)
(* Backups, for any number of jobs, days, months and settings.             *)
(*                                                                         *)
(* Being outlived is handed down. What outlives an object may be deleted   *)
(* in its turn, but then something outlives that, and this outlives the    *)
(* first one too. So it does not matter which retention job deletes by     *)
(* which listing, and where one of them ends.                              *)
(***************************************************************************)
USE BackupsAssumption

\* An object that is stored was uploaded once.
BucketOK == bucket \subseteq Ever

\* Whoever is at work or has uploaded has a row, so it does not start again: the
\* start of an object, and with it its month, is fixed.
RunsOK == \A r \in Runs : (r \in Ever \/ stage[r] # "idle") => upload[r] # "none"

\* However old a plan is, what it deletes is old and outlived by what is stored now.
PlanOK ==
    \A s \in Sweepers : \A r \in plan[s] :
        r \in Ever /\ Outlived(r) /\ started[r] < today - RetentionDays

BackupsIInv ==
    BackupsTypeOK /\ BucketOK /\ RunsOK /\ PlanOK /\ HistoryKept

\* Jobs start in finitely many months.
LEMMA MonthsFinite ==
    ASSUME NEW S \in SUBSET Runs, NEW month, NEW months, months = {month[q] : q \in S}
    PROVE  IsFiniteSet(months) /\ Cardinality(months) \in Nat
<1>1. IsFiniteSet(Runs)
    BY FS_Interval DEF Runs
<1>2. IsFiniteSet(S)
    BY <1>1, FS_Subset
<1> DEFINE f == [q \in S |-> month[q]]
<1>3. f \in Surjection(S, months)
    BY DEF Surjection
<1> HIDE DEF f
<1>4. IsFiniteSet(months)
    BY <1>2, <1>3, FS_Surjection
<1> QED
    BY <1>4, FS_CardinalityType

\* Taking the object r away, which is outlived itself, leaves whatever is
\* outlived outlived: what made it so for r does so for it.
LEMMA StillOutlived ==
    ASSUME BackupsTypeOK, started' = started, bucket' \subseteq bucket,
           NEW r \in Runs, bucket \subseteq bucket' \union {r}, Outlived(r),
           NEW x \in Runs, Outlived(x)
    PROVE  Outlived(x)'
<1>1. \A q \in Runs : Month(q)' = Month(q) /\ Month(q) \in Int
    BY DEF Month, BackupsTypeOK, Days
<1>2. bucket \subseteq Runs /\ bucket' \subseteq Runs
    BY DEF BackupsTypeOK
<1> DEFINE month == [q \in Runs |-> Month(q)]
<1>3. \A y \in Runs :
        /\ LaterMonths(y)' = {month[q] : q \in {p \in bucket' : month[p] > month[y]}}
        /\ {p \in bucket' : month[p] > month[y]} \in SUBSET Runs
    BY <1>1, <1>2 DEF LaterMonths
<1> HIDE DEF month
<1>4. ASSUME NEW y \in Runs
      PROVE  IsFiniteSet(LaterMonths(y)') /\ Cardinality(LaterMonths(y)') \in Nat
    <2>1. PICK S \in SUBSET Runs : LaterMonths(y)' = {month[q] : q \in S}
        BY <1>3
    <2> QED
        BY <2>1, MonthsFinite
<1>5. LaterMonths(r)' = LaterMonths(r)
    BY <1>1, <1>2 DEF LaterMonths
<1>6. Outlived(r)'
    BY <1>1, <1>2, <1>5 DEF Outlived, Runs
<1>7. CASE \E q \in bucket : q > x /\ Month(q) = Month(x)
    <2>1. PICK q \in bucket : q > x /\ Month(q) = Month(x)
        BY <1>7
    <2>2. CASE q \in bucket'
        BY <1>1, <1>2, <2>1, <2>2 DEF Outlived
    <2>3. CASE q = r
        <3>1. LaterMonths(x)' = LaterMonths(r)'
            BY <1>1, <1>2, <2>1, <2>3 DEF LaterMonths
        <3>2. CASE \E p \in bucket' : p > r /\ Month(p)' = Month(r)'
            BY <1>1, <1>2, <2>1, <2>3, <3>2 DEF Outlived, Runs
        <3>3. CASE Cardinality(LaterMonths(r)') >= MonthlyKeep
            BY <3>1, <3>3 DEF Outlived
        <3> QED
            BY <1>6, <3>2, <3>3 DEF Outlived
    <2> QED
        BY <2>1, <2>2, <2>3
<1>8. CASE Cardinality(LaterMonths(x)) >= MonthlyKeep
    <2>1. CASE LaterMonths(x) \subseteq LaterMonths(x)'
        <3>1. LaterMonths(x) \in SUBSET LaterMonths(x)'
            BY <2>1
        <3>2. Cardinality(LaterMonths(x)) <= Cardinality(LaterMonths(x)')
            BY <1>4, <3>1, FS_Subset
        <3>3. IsFiniteSet(LaterMonths(x))
            BY <1>4, <3>1, FS_Subset
        <3>4. Cardinality(LaterMonths(x)) \in Nat
            BY <3>3, FS_CardinalityType
        <3> QED
            BY <1>4, <1>8, <3>2, <3>4 DEF Outlived
    <2>2. CASE ~(LaterMonths(x) \subseteq LaterMonths(x)')
        <3>1. /\ Month(r) > Month(x)
              /\ \A p \in bucket' : Month(p) # Month(r)
            BY <1>1, <1>2, <2>2 DEF LaterMonths
        <3>2. Cardinality(LaterMonths(r)') >= MonthlyKeep
            BY <1>1, <1>2, <1>6, <3>1 DEF Outlived
        <3>3. LaterMonths(r)' \in SUBSET LaterMonths(x)'
            BY <1>1, <1>2, <3>1 DEF LaterMonths
        <3>4. Cardinality(LaterMonths(r)') <= Cardinality(LaterMonths(x)')
            BY <1>4, <3>3, FS_Subset
        <3> QED
            BY <1>4, <3>2, <3>4 DEF Outlived
    <2> QED
        BY <2>1, <2>2
<1> QED
    BY <1>7, <1>8 DEF Outlived

\* What is outlived stays so when an object is added and when jobs start.
LEMMA MoreOutlive ==
    ASSUME BackupsTypeOK, BackupsTypeOK', bucket \subseteq bucket', NEW x \in Runs,
           \A q \in bucket \union {x} : started'[q] = started[q], Outlived(x)
    PROVE  Outlived(x)'
<1>1. \A q \in Runs : Month(q)' \in Int /\ Month(q) \in Int
    BY DEF Month, BackupsTypeOK, Days
<1>2. bucket \subseteq Runs /\ bucket' \subseteq Runs
    BY DEF BackupsTypeOK
<1>3. \A q \in bucket \union {x} : Month(q)' = Month(q)
    BY DEF Month
<1> DEFINE month == [q \in Runs |-> Month(q)']
<1>4. PICK S \in SUBSET Runs : LaterMonths(x)' = {month[q] : q \in S}
    <2> DEFINE L == {p \in bucket' : month[p] > month[x]}
    <2>1. LaterMonths(x)' = {month[q] : q \in L} /\ L \in SUBSET Runs
        BY <1>1, <1>2 DEF LaterMonths
    <2> QED
        BY <2>1
<1> HIDE DEF month
<1>5. IsFiniteSet(LaterMonths(x)') /\ Cardinality(LaterMonths(x)') \in Nat
    BY <1>4, MonthsFinite
<1>6. LaterMonths(x) \in SUBSET LaterMonths(x)'
    BY <1>1, <1>2, <1>3 DEF LaterMonths
<1>7. /\ IsFiniteSet(LaterMonths(x))
      /\ Cardinality(LaterMonths(x)) <= Cardinality(LaterMonths(x)')
    BY <1>5, <1>6, FS_Subset
<1>8. Cardinality(LaterMonths(x)) \in Nat
    BY <1>7, FS_CardinalityType
<1>9. CASE \E q \in bucket : q > x /\ Month(q) = Month(x)
    BY <1>3, <1>9 DEF Outlived
<1>10. CASE Cardinality(LaterMonths(x)) >= MonthlyKeep
    BY <1>5, <1>7, <1>8, <1>10 DEF Outlived
<1> QED
    BY <1>9, <1>10 DEF Outlived

\* What a retention job plans to delete is old, and outlived by what it keeps:
\* by the latest of its month, or, if it is that, by the latest of MonthlyKeep
\* later months.
LEMMA PlannedOutlived ==
    ASSUME BackupsTypeOK, NEW r \in bucket \ (Recent \union Monthly)
    PROVE  Outlived(r) /\ started[r] < today - RetentionDays
<1>1. bucket \subseteq Runs /\ r \in Runs
    BY DEF BackupsTypeOK
<1>2. \A q \in Runs : Month(q) \in Int /\ started[q] \in Int
    BY DEF Month, BackupsTypeOK, Days
<1>3. started[r] < today - RetentionDays
    BY <1>1, <1>2 DEF Recent, BackupsTypeOK, Days
<1>4. CASE r \notin LatestByMonth
    <2>1. PICK q \in bucket \ Recent : Month(q) = Month(r) /\ ~(q <= r)
        BY <1>4 DEF LatestByMonth
    <2> QED
        BY <1>1, <1>3, <2>1 DEF Outlived, Runs
<1>5. CASE r \in LatestByMonth
    <2> DEFINE L == {q \in LatestByMonth : Month(q) > Month(r)}
    <2> DEFINE f == [q \in L |-> Month(q)]
    <2> DEFINE month == [q \in Runs |-> Month(q)]
    <2>1. L \subseteq bucket
        BY DEF LatestByMonth
    <2>2. f \in Injection(L, LaterMonths(r))
        <3>1. f \in [L -> LaterMonths(r)]
            BY <2>1 DEF LaterMonths
        <3>2. \A p, q \in LatestByMonth : Month(p) = Month(q) => p <= q /\ q <= p
            BY DEF LatestByMonth
        <3>3. \A p, q \in L : f[p] = f[q] => p = q
            <4> SUFFICES ASSUME NEW p \in L, NEW q \in L, f[p] = f[q] PROVE p = q
                OBVIOUS
            <4>1. Month(p) = Month(q) /\ p \in Runs /\ q \in Runs
                BY <1>1, <2>1
            <4>2. p <= q /\ q <= p
                BY <3>2, <4>1
            <4> QED
                BY <4>1, <4>2 DEF Runs
        <3> HIDE DEF f, L
        <3> QED
            BY <3>1, <3>3 DEF Injection, IsInjective
    <2>3. PICK S \in SUBSET Runs : LaterMonths(r) = {month[q] : q \in S}
        <3> DEFINE later == {p \in bucket : month[p] > month[r]}
        <3>1. LaterMonths(r) = {month[q] : q \in later} /\ later \in SUBSET Runs
            BY <1>1, <1>2 DEF LaterMonths
        <3> QED
            BY <3>1
    <2>4. ~(Cardinality(L) < MonthlyKeep)
        BY <1>5 DEF Monthly
    <2> HIDE DEF L, f, month
    <2>5. IsFiniteSet(LaterMonths(r)) /\ Cardinality(LaterMonths(r)) \in Nat
        BY <2>3, MonthsFinite
    <2>6. IsFiniteSet(L) /\ Cardinality(L) <= Cardinality(LaterMonths(r))
        BY <2>2, <2>5, FS_Injection
    <2>7. Cardinality(L) \in Nat
        BY <2>6, FS_CardinalityType
    <2> QED
        BY <1>3, <2>4, <2>5, <2>6, <2>7 DEF Outlived
<1> QED
    BY <1>4, <1>5

\* The empty bucket satisfies the invariant.
LEMMA InitBackups == BackupsInit => BackupsIInv
<1> SUFFICES ASSUME BackupsInit PROVE BackupsIInv
    OBVIOUS
<1>1. BackupsTypeOK
    BY DEF BackupsInit, BackupsTypeOK, Days, None
<1>2. Ever = {}
    BY DEF BackupsInit, Ever, Range
<1> QED
    BY <1>1, <1>2 DEF BackupsInit, BackupsIInv, BucketOK, RunsOK, PlanOK, HistoryKept

\* A step that leaves the bucket, the uploads and the plans alone, changes the
\* start of no job that has uploaded and sets no clock back preserves it.
LEMMA ElsewhereStep ==
    ASSUME BackupsIInv, BackupsTypeOK', RunsOK', UNCHANGED <<uploads, bucket, plan>>, today <= today',
           \A r \in Ever : started'[r] = started[r]
    PROVE  BackupsIInv'
<1> USE DEF BackupsIInv
<1>1. Ever' = Ever /\ bucket' = bucket /\ plan' = plan
    BY DEF Ever
<1>2. Ever \subseteq Runs
    BY DEF BackupsTypeOK, Ever, Range
<1>3. ASSUME NEW r \in Ever, Outlived(r) PROVE Outlived(r)'
    <2>1. \A q \in bucket \union {r} : started'[q] = started[q]
        BY <1>3 DEF BucketOK
    <2> QED
        BY <1>1, <1>2, <1>3, <2>1, MoreOutlive
<1>4. PlanOK'
    <2> SUFFICES ASSUME NEW s \in Sweepers, NEW r \in plan[s]
                 PROVE  (r \in Ever /\ Outlived(r) /\ started[r] < today - RetentionDays)'
        BY <1>1 DEF PlanOK
    <2>1. r \in Ever /\ Outlived(r) /\ started[r] < today - RetentionDays
        BY DEF PlanOK
    <2>2. started[r] \in Int /\ today \in Int /\ today' \in Int /\ started'[r] = started[r]
        BY <1>2, <2>1 DEF BackupsTypeOK, Days
    <2>3. started[r] < today' - RetentionDays
        BY <2>1, <2>2
    <2> QED
        BY <1>1, <1>3, <2>1, <2>2, <2>3
<1> QED
    BY <1>1, <1>3, <1>4 DEF BucketOK, HistoryKept

\* Every step of a job and of the clock preserves it.
LEMMA StepBackups == BackupsIInv /\ [BackupsNext]_backupVars => BackupsIInv'
<1> SUFFICES ASSUME BackupsIInv, [BackupsNext]_backupVars PROVE BackupsIInv'
    OBVIOUS
<1>0. BackupsTypeOK /\ BucketOK /\ RunsOK /\ PlanOK /\ HistoryKept
    BY DEF BackupsIInv
<1>E. Ever \subseteq Runs
    BY <1>0 DEF BackupsTypeOK, Ever, Range
<1>1. CASE Tick
    <2>1. BackupsTypeOK' /\ today <= today'
        BY <1>0, <1>1 DEF Tick, BackupsTypeOK, Days
    <2>2. RunsOK'
        BY <1>0, <1>1 DEF Tick, RunsOK, Ever
    <2> QED
        BY <1>1, <2>1, <2>2, ElsewhereStep DEF Tick
<1>2. ASSUME NEW r \in Runs, Start(r) PROVE BackupsIInv'
    <2>1. BackupsTypeOK'
        <3>1. rows' \in Seq(Runs \union {Drill})
            BY <1>0, <1>2 DEF Start, BackupsTypeOK
        <3> QED
            BY <1>0, <1>2, <3>1 DEF Start, BackupsTypeOK
    <2>2. RunsOK'
        BY <1>0, <1>2 DEF Start, RunsOK, Ever, BackupsTypeOK
    <2>3. r \notin Ever
        BY <1>0, <1>2 DEF Start, RunsOK
    <2>4. today <= today' /\ \A q \in Ever : started'[q] = started[q]
        BY <1>0, <1>2, <1>E, <2>3 DEF Start, BackupsTypeOK, Days
    <2> QED
        BY <1>2, <2>1, <2>2, <2>4, ElsewhereStep DEF Start
<1>3. ASSUME NEW r \in Runs, MarkFailed(r) \/ Finish(r) \/ Die(r) PROVE BackupsIInv'
    <2>1. UNCHANGED <<today, started, rows, uploads, bucket, plan, drilling>>
        BY <1>3 DEF MarkFailed, Finish, Die
    <2>2. BackupsTypeOK'
        <3>1. whole' \subseteq Runs
            BY <1>0, <1>3 DEF MarkFailed, Finish, Die, BackupsTypeOK
        <3>2. /\ stage' \in [Runs -> {"idle", "dumping", "uploaded"}]
              /\ upload' \in [Runs -> {"none", "pending", "uploaded", "failed"}]
            BY <1>0, <1>3 DEF MarkFailed, Finish, Die, BackupsTypeOK
        <3> QED
            BY <1>0, <2>1, <3>1, <3>2 DEF BackupsTypeOK
    <2>3. RunsOK'
        BY <1>0, <1>3, <2>1 DEF MarkFailed, Finish, Die, RunsOK, Ever, BackupsTypeOK
    <2>4. today <= today'
        BY <1>0, <2>1 DEF BackupsTypeOK, Days
    <2> QED
        BY <2>1, <2>2, <2>3, <2>4, ElsewhereStep
<1>4. ASSUME NEW r \in Runs, Upload(r) PROVE BackupsIInv'
    <2>1. Ever' = Ever \union {r}
        <3>1. uploads \in Seq(Runs) /\ uploads' = Append(uploads, r)
            BY <1>0, <1>4 DEF Upload, BackupsTypeOK
        <3> QED
            BY <3>1 DEF Ever, Range
    <2>2. BackupsTypeOK'
        <3>1. uploads' \in Seq(Runs) /\ bucket' \subseteq Runs
            BY <1>0, <1>4 DEF Upload, BackupsTypeOK
        <3> QED
            BY <1>0, <1>4, <3>1 DEF Upload, BackupsTypeOK
    <2>3. RunsOK'
        BY <1>0, <1>4, <2>1 DEF Upload, RunsOK, BackupsTypeOK
    <2>4. ASSUME NEW x \in Ever, Outlived(x) PROVE Outlived(x)'
        BY <1>0, <1>4, <1>E, <2>2, <2>4, MoreOutlive DEF Upload
    <2>5. /\ bucket' = bucket \union {r}
          /\ UNCHANGED <<today, started, plan>>
        BY <1>4 DEF Upload
    <2>6. BucketOK' /\ HistoryKept'
        BY <1>0, <2>1, <2>4, <2>5 DEF BucketOK, HistoryKept
    <2>7. PlanOK'
        BY <1>0, <2>1, <2>4, <2>5 DEF PlanOK
    <2> QED
        BY <1>0, <2>2, <2>3, <2>6, <2>7 DEF BackupsIInv
<1>5. ASSUME NEW s \in Sweepers, Sweep(s) PROVE BackupsIInv'
    <2>1. UNCHANGED <<today, started, stage, upload, whole, rows, uploads, bucket, drilling>>
        BY <1>5 DEF Sweep
    <2>2. /\ plan'[s] = bucket \ (Recent \union Monthly)
          /\ \A t \in Sweepers : t # s => plan'[t] = plan[t]
          /\ plan' \in [Sweepers -> SUBSET Runs]
        BY <1>0, <1>5 DEF Sweep, BackupsTypeOK
    <2>3. Ever' = Ever /\ \A x : Outlived(x)' = Outlived(x)
        BY <2>1 DEF Ever, Outlived, LaterMonths, Month
    <2>4. \A r \in plan'[s] : r \in Ever /\ Outlived(r) /\ started[r] < today - RetentionDays
        BY <1>0, <2>2, PlannedOutlived DEF BucketOK
    <2>5. PlanOK'
        BY <1>0, <2>1, <2>2, <2>3, <2>4 DEF PlanOK
    <2>6. BackupsTypeOK' /\ BucketOK' /\ RunsOK' /\ HistoryKept'
        BY <1>0, <2>1, <2>2, <2>3 DEF BackupsTypeOK, BucketOK, RunsOK, HistoryKept
    <2> QED
        BY <1>0, <2>5, <2>6 DEF BackupsIInv
<1>6. ASSUME NEW s \in Sweepers, Delete(s) PROVE BackupsIInv'
    <2>1. PICK r \in plan[s] : bucket' = bucket \ {r} /\ plan' = [plan EXCEPT ![s] = @ \ {r}]
        BY <1>6 DEF Delete
    <2>2. UNCHANGED <<today, started, stage, upload, whole, rows, uploads, drilling>>
        BY <1>6 DEF Delete
    <2>3. r \in Ever /\ r \in Runs /\ Outlived(r)
        BY <1>0, <1>E DEF PlanOK
    <2>4. /\ plan' \in [Sweepers -> SUBSET Runs]
          /\ \A t \in Sweepers : plan'[t] \subseteq plan[t]
        BY <1>0, <2>1 DEF BackupsTypeOK
    <2>5. ASSUME NEW x \in Ever, Outlived(x) PROVE Outlived(x)'
        BY <1>0, <1>E, <2>1, <2>2, <2>3, <2>5, StillOutlived
    <2>6. Ever' = Ever
        BY <2>2 DEF Ever
    <2>7. BackupsTypeOK' /\ BucketOK' /\ RunsOK'
        BY <1>0, <2>1, <2>2, <2>4, <2>6 DEF BackupsTypeOK, BucketOK, RunsOK
    <2>8. HistoryKept'
        BY <1>0, <2>1, <2>3, <2>5, <2>6 DEF HistoryKept
    <2>9. PlanOK'
        BY <1>0, <2>2, <2>4, <2>5, <2>6 DEF PlanOK
    <2> QED
        BY <1>0, <2>7, <2>8, <2>9 DEF BackupsIInv
<1>7. ASSUME NEW s \in Sweepers, SweepFails(s) PROVE BackupsIInv'
    <2>1. UNCHANGED <<today, started, stage, upload, whole, rows, uploads, bucket, drilling>>
        BY <1>7 DEF SweepFails
    <2>2. /\ plan' \in [Sweepers -> SUBSET Runs]
          /\ \A t \in Sweepers : plan'[t] \subseteq plan[t]
        BY <1>0, <1>7 DEF SweepFails, BackupsTypeOK
    <2>3. Ever' = Ever /\ \A x : Outlived(x)' = Outlived(x)
        BY <2>1 DEF Ever, Outlived, LaterMonths, Month
    <2> QED
        BY <1>0, <2>1, <2>2, <2>3 DEF BackupsIInv, BackupsTypeOK, BucketOK, RunsOK, PlanOK, HistoryKept
<1>8. CASE PickLatest \/ DrillPasses \/ DrillEnds
    <2>1. UNCHANGED <<today, started, stage, upload, whole, uploads, bucket, plan>>
        BY <1>8 DEF PickLatest, DrillPasses, DrillEnds
    <2>2. rows' \in Seq(Runs \union {Drill})
        <3>1. rows' = rows \/ rows' = Append(rows, Drill)
            BY <1>8 DEF PickLatest, DrillPasses, DrillEnds
        <3> DEFINE entries == Runs \union {Drill}
        <3>2. rows \in Seq(entries) /\ Drill \in entries
            BY <1>0 DEF BackupsTypeOK
        <3> HIDE DEF entries
        <3>3. rows' \in Seq(entries)
            BY <3>1, <3>2
        <3> QED
            BY <3>3 DEF entries
    <2>3. drilling' \subseteq Runs
        <3>1. drilling' \subseteq bucket \/ drilling' = {}
            BY <1>8 DEF PickLatest, DrillPasses, DrillEnds, None
        <3> QED
            BY <1>0, <3>1 DEF BackupsTypeOK
    <2>4. BackupsTypeOK' /\ RunsOK' /\ today <= today'
        BY <1>0, <2>1, <2>2, <2>3 DEF BackupsTypeOK, RunsOK, Ever, Days
    <2> QED
        BY <2>1, <2>4, ElsewhereStep
<1>9. CASE UNCHANGED backupVars
    <2>1. BackupsTypeOK' /\ RunsOK' /\ today <= today'
        BY <1>0, <1>9 DEF backupVars, BackupsTypeOK, RunsOK, Ever, Days
    <2> QED
        BY <1>9, <2>1, ElsewhereStep DEF backupVars
<1> QED
    BY <1>1, <1>2, <1>3, <1>4, <1>5, <1>6, <1>7, <1>8, <1>9 DEF BackupsNext

\* It holds initially and every step preserves it.
THEOREM BackupsInvariance == BackupsSpec => []BackupsIInv
<1>1. BackupsInit => BackupsIInv
    BY InitBackups
<1>2. BackupsIInv /\ [BackupsNext]_backupVars => BackupsIInv'
    BY StepBackups
<1> QED
    BY <1>1, <1>2, PTL DEF BackupsSpec

\* Every variable of the backup jobs keeps to the values its column can have.
THEOREM BackupsTypeCorrect == BackupsSpec => []BackupsTypeOK
<1>1. BackupsIInv => BackupsTypeOK
    BY DEF BackupsIInv
<1> QED
    BY <1>1, BackupsInvariance, PTL

\* An object that is gone has a newer one of its month in the bucket, or one in
\* each of MonthlyKeep later months, whatever jobs overlap, die or upload late.
THEOREM HistoryIsKept == BackupsSpec => []HistoryKept
<1>1. BackupsIInv => HistoryKept
    BY DEF BackupsIInv
<1> QED
    BY <1>1, BackupsInvariance, PTL

\* No step deletes an object younger than the retention period: only a retention
\* job deletes, and by its plan.
THEOREM RecentIsKept == BackupsSpec => RecentKept
<1>1. BackupsIInv /\ [BackupsNext]_backupVars =>
          [\A r \in bucket \ bucket' : started[r] < today - RetentionDays]_backupVars
    <2> SUFFICES ASSUME BackupsIInv, BackupsNext, NEW r \in bucket, r \notin bucket'
                 PROVE  started[r] < today - RetentionDays
        BY DEF backupVars
    <2>1. CASE \E s \in Sweepers : Delete(s)
        BY <2>1 DEF Delete, BackupsIInv, PlanOK
    <2>2. CASE ~ \E s \in Sweepers : Delete(s)
        BY <2>2 DEF BackupsNext, Tick, Start, MarkFailed, Upload, Finish, Die,
                    Sweep, SweepFails, PickLatest, DrillPasses, DrillEnds
    <2> QED
        BY <2>1, <2>2
<1> QED
    BY <1>1, BackupsInvariance, PTL DEF BackupsSpec, RecentKept
=============================================================================
