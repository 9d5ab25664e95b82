---------------------------- MODULE AccessProofs ----------------------------
(***************************************************************************)
(* Proofs about Access and its rate limiter, for any number of users,      *)
(* cameras, sessions and requests at the same time, and any limits.        *)
(*                                                                         *)
(* The limiter: a request of this life of the process it no longer keeps   *)
(* left the window of one it keeps, or is older than all it keeps and it   *)
(* keeps as many as it may.                                                *)
(* Disabling: between the locking of the sessions and the commit, whatever *)
(* is good for the user is about to be revoked or a stray; from the        *)
(* removal to the commit, who is in a room is excused.                     *)
(***************************************************************************)
EXTENDS Access, FiniteSetTheorems, TLAPS

Forgotten(k) ==
    \A i \in DOMAIN served[k] \ timestamps[k] : served[k][i].life = life =>
        \/ \E j \in timestamps[k] : served[k][i].at + Window <= served[k][j].at
        \/ /\ Cardinality(timestamps[k]) >= MaxRequests
           /\ \A j \in timestamps[k] : served[k][i].at < served[k][j].at

\* Who was told when to come back comes when a request has left the window.
Promised(k) ==
    told[k] # NotTold /\ timestamps[k] # {} => \E i \in timestamps[k] : served[k][i].at + Window < told[k]

Windows(k) ==
    \A alive \in Lives, t \in Times :
        Cardinality(Between(k, alive, t, t + Window - 1)) <= MaxRequests

\* No request was let through in a life to come.
Past(k) == \A i \in DOMAIN served[k] : served[k][i].life <= life

LimiterOK(k) ==
    /\ IsFiniteSet(timestamps[k]) /\ Cardinality(timestamps[k]) <= MaxRequests
    /\ Past(k) /\ Forgotten(k) /\ Promised(k) /\ Windows(k)

\* No request of a disabled user gets past the authentication.
AdmittedOK ==
    \A h \in Handlers :
        job[h] # Idle /\ job[h].stage \in {"found", "admitted", "welcome", "granting", "permitted"}
            => ~job[h].disabled

\* What is good for a user about to be disabled is revoked with the commit, or a stray.
RevokingOK ==
    \A h \in Handlers : Underway(h) => ActiveOf(job[h].user) \subseteq job[h].revoking \union strays

\* Who is still in a room when the participants were removed is excused.
RemovedOK ==
    \A h \in Handlers : At(h, "removed") =>
        \A v \in present : v[1] = job[h].user => v \in excused

ShutOK == AdmittedOK /\ RevokingOK /\ RemovedOK /\ DisabledIsShutOut
IInv == TypeOK /\ (\A k \in Keys : LimiterOK(k)) /\ ShutOK

USE RateAssumption, AccessAssumption

-----------------------------------------------------------------------------
(***************************************************************************)
(* The rate limiter.                                                       *)
(***************************************************************************)
\* A set of places that is not empty has a first one.
LEMMA FirstIs ==
    ASSUME NEW places \in SUBSET Nat, places # {}
    PROVE  First(places) \in places
<1>1. PICK i \in places : \A j \in places : ~ (<<j, i>> \in OpToRel(<, Nat))
    BY NatLessThanWellFounded, WFMin
<1>2. \A j \in places : ~ (j < i)
    BY <1>1 DEF OpToRel
<1>3. \A j \in places : i <= j
    BY <1>2
<1> QED
    BY <1>3 DEF First

\* Rounded down to seconds, and one more, is later.
LEMMA RoundedUp ==
    ASSUME NEW x \in Nat
    PROVE  (x \div Second + 1) * Second \in Nat /\ (x \div Second + 1) * Second > x
           /\ x \div Second + 1 >= 1
<1>1. PICK s \in Nat \ {0} : s = Second
    OBVIOUS
<1>2. x < s * (x \div s) + s
    OBVIOUS
<1>3. PICK q \in Nat : q = x \div s
    OBVIOUS
<1>4. (q + 1) * s = s * q + s /\ (q + 1) * s \in Nat
    OBVIOUS
<1> QED
    BY <1>1, <1>2, <1>3, <1>4

\* What the limiter lets through has a time, a place and who is kept a number.
LEMMA KeptType ==
    ASSUME RateTypeOK, NEW k \in Keys
    PROVE  /\ served[k] \in Seq(Passed) /\ Len(served[k]) \in Nat
           /\ DOMAIN served[k] = 1..Len(served[k])
           /\ timestamps[k] \in SUBSET Nat /\ timestamps[k] \subseteq DOMAIN served[k]
           /\ \A i \in DOMAIN served[k] : /\ served[k][i] \in Passed
                                          /\ served[k][i].at \in Nat
                                          /\ served[k][i].at \in Times
                                          /\ served[k][i].life \in Nat
           /\ told[k] \in Nat \union {NotTold}
<1>1. /\ served[k] \in Seq(Passed) /\ timestamps[k] \in SUBSET Nat
      /\ timestamps[k] \subseteq DOMAIN served[k] /\ told[k] \in Nat \union {NotTold}
    BY DEF RateTypeOK
<1>2. Len(served[k]) \in Nat /\ DOMAIN served[k] = 1..Len(served[k])
    BY <1>1
<1>3. ASSUME NEW i \in DOMAIN served[k] PROVE served[k][i] \in Passed
    BY <1>1, <1>2
<1>4. \A e \in Passed : e.at \in Times /\ e.at \in Nat /\ e.life \in Nat
    BY DEF Passed, Times, Lives
<1> QED
    BY <1>1, <1>2, <1>3, <1>4

\* Pruning keeps some of the requests; how many is a number.
LEMMA PrunedIs ==
    ASSUME RateTypeOK, NEW k \in Keys, LimiterOK(k), NEW at \in Times
    PROVE  /\ Pruned(k, at) \subseteq timestamps[k] /\ IsFiniteSet(Pruned(k, at))
           /\ Cardinality(Pruned(k, at)) \in Nat /\ Cardinality(timestamps[k]) \in Nat
           /\ Cardinality(Pruned(k, at)) <= Cardinality(timestamps[k])
           /\ Cardinality(Pruned(k, at)) = Cardinality(timestamps[k])
                  => Pruned(k, at) = timestamps[k]
           /\ \A i \in timestamps[k] :
                  i \in Pruned(k, at) <=> served[k][i].at > at - Window
<1>1. Pruned(k, at) \subseteq timestamps[k] /\ IsFiniteSet(timestamps[k])
    BY DEF Pruned, LimiterOK
<1>2. \A i \in timestamps[k] : i \in Pruned(k, at) <=> served[k][i].at > at - Window
    BY DEF Pruned
<1>3. /\ IsFiniteSet(Pruned(k, at))
      /\ Cardinality(Pruned(k, at)) <= Cardinality(timestamps[k])
      /\ Cardinality(timestamps[k]) = Cardinality(Pruned(k, at)) => timestamps[k] = Pruned(k, at)
    BY <1>1, FS_Subset
<1>4. Cardinality(Pruned(k, at)) \in Nat /\ Cardinality(timestamps[k]) \in Nat
    BY <1>1, <1>3, FS_CardinalityType
<1> QED
    BY <1>1, <1>2, <1>3, <1>4

\* The other keys have windows of their own.
LEMMA OtherKeys ==
    ASSUME NEW q, LimiterOK(q), served'[q] = served[q], timestamps'[q] = timestamps[q],
           told'[q] = told[q], life' = life
    PROVE  LimiterOK(q)'
<1>1. \A alive, t : Between(q, alive, t, t + Window - 1)' = Between(q, alive, t, t + Window - 1)
    BY DEF Between
<1>2. Windows(q)'
    BY <1>1 DEF Windows, LimiterOK
<1> QED
    BY <1>2 DEF LimiterOK, Forgotten, Promised, Past

\* What a check that lets a request through writes.
LEMMA AllowWrites ==
    ASSUME RateTypeOK, NEW k \in Keys, NEW at \in Times, Allow(k, at)
    PROVE  /\ \A q \in Keys : q # k => /\ served'[q] = served[q] /\ told'[q] = told[q]
                                      /\ timestamps'[q] = timestamps[q]
           /\ served'[k] = Append(served[k], [at |-> at, life |-> life,
                                              overtaken |-> Overtaken(k, at)])
           /\ life' = life
           /\ DOMAIN served'[k] = 1..Len(served[k]) + 1
           /\ \A i \in DOMAIN served[k] : served'[k][i] = served[k][i]
           /\ served'[k][Len(served[k]) + 1].at = at
           /\ served'[k][Len(served[k]) + 1].life = life
           /\ served'[k][Len(served[k]) + 1].overtaken <=> Overtaken(k, at)
           /\ timestamps'[k] = Pruned(k, at) \union {Len(served[k]) + 1}
           /\ told'[k] = NotTold
<1> DEFINE e == [at |-> at, life |-> life, overtaken |-> Overtaken(k, at)]
<1>1. /\ served \in [Keys -> Seq(Passed)] /\ timestamps \in [Keys -> SUBSET Nat]
      /\ told \in [Keys -> Nat \union {NotTold}]
    BY DEF RateTypeOK
<1>2. /\ served' = [served EXCEPT ![k] = Append(served[k], e)]
      /\ timestamps' = [timestamps EXCEPT ![k] = Pruned(k, at) \union {Len(served[k]) + 1}]
      /\ told' = [told EXCEPT ![k] = NotTold] /\ life' = life
    BY DEF Allow
<1>3. e.at = at /\ e.life = life /\ (e.overtaken <=> Overtaken(k, at))
    OBVIOUS
<1>4. /\ served'[k] = Append(served[k], [at |-> at, life |-> life,
                                         overtaken |-> Overtaken(k, at)])
      /\ life' = life
    BY <1>1, <1>2
<1> HIDE DEF e
<1>5. \A q \in Keys : q # k => /\ served'[q] = served[q] /\ told'[q] = told[q]
                              /\ timestamps'[q] = timestamps[q]
    BY <1>1, <1>2
<1>6. /\ served[k] \in Seq(Passed) /\ served'[k] = Append(served[k], e)
      /\ timestamps'[k] = Pruned(k, at) \union {Len(served[k]) + 1}
      /\ told'[k] = NotTold
    BY <1>1, <1>2
<1>7. /\ DOMAIN served'[k] = 1..Len(served[k]) + 1
      /\ \A i \in DOMAIN served[k] : served'[k][i] = served[k][i]
      /\ served'[k][Len(served[k]) + 1] = e
    BY <1>6
<1> QED
    BY <1>3, <1>4, <1>5, <1>6, <1>7

\* A request that is let through forgets nobody it should count
LEMMA AllowForgets ==
    ASSUME RateTypeOK, NEW k \in Keys, LimiterOK(k), NEW at \in Times, Allow(k, at)
    PROVE  Forgotten(k)'
<1> DEFINE n == Len(served[k]) + 1
<1>1. /\ served[k] \in Seq(Passed) /\ n \in Nat /\ n - 1 \in Nat /\ DOMAIN served[k] = 1..n - 1
      /\ timestamps[k] \subseteq DOMAIN served[k]
      /\ \A i \in DOMAIN served[k] : served[k][i].at \in Nat
    BY KeptType
<1>2. /\ DOMAIN served'[k] = 1..n /\ served'[k][n].at = at
      /\ \A i \in DOMAIN served[k] : served'[k][i] = served[k][i]
      /\ timestamps'[k] = Pruned(k, at) \union {n} /\ life' = life
    BY AllowWrites
<1>3. Cardinality(Pruned(k, at)) < MaxRequests
    BY DEF Allow
<1>4. at \in Nat /\ Window \in Nat /\ MaxRequests \in Nat
    BY DEF Times
<1> HIDE DEF n
<1>5. ASSUME NEW i \in DOMAIN served'[k] \ timestamps'[k], served'[k][i].life = life'
      PROVE  \E j \in timestamps'[k] : served'[k][i].at + Window <= served'[k][j].at
    <2>1. i \in DOMAIN served[k] /\ i # n /\ i \notin Pruned(k, at) /\ served[k][i].life = life
        BY <1>1, <1>2, <1>5
    <2>2. CASE i \in timestamps[k]
        <3>1. served[k][i].at + Window <= at
            <4>1. ~ (served[k][i].at > at - Window)
                BY <2>1, <2>2, PrunedIs
            <4>2. served[k][i].at \in Nat
                BY <1>1, <2>1
            <4> QED
                BY <1>4, <4>1, <4>2
        <3> QED
            BY <1>2, <2>1, <3>1
    <2>3. ASSUME NEW j \in timestamps[k], j \notin Pruned(k, at),
                 served[k][i].at <= served[k][j].at
          PROVE  served[k][i].at + Window <= at
        <3>1. served[k][i].at \in Nat /\ served[k][j].at \in Nat
            BY <1>1, <2>1, <2>3
        <3>2. ~ (served[k][j].at > at - Window)
            BY <2>3, PrunedIs
        <3> QED
            BY <1>4, <2>3, <3>1, <3>2
    <2>4. CASE \E j \in timestamps[k] : served[k][i].at + Window <= served[k][j].at
        <3>1. PICK j \in timestamps[k] : served[k][i].at + Window <= served[k][j].at
            BY <2>4
        <3>2. CASE j \in Pruned(k, at)
            BY <1>1, <1>2, <2>1, <3>1, <3>2
        <3>3. CASE j \notin Pruned(k, at)
            <4>1. served[k][i].at <= served[k][j].at
                <5>1. served[k][i].at \in Nat /\ served[k][j].at \in Nat
                    BY <1>1, <2>1
                <5> QED
                    BY <1>4, <3>1, <5>1
            <4>2. served[k][i].at + Window <= at
                BY <2>3, <3>3, <4>1
            <4> QED
                BY <1>2, <2>1, <4>2
        <3> QED
            BY <3>2, <3>3
    <2>5. CASE /\ Cardinality(timestamps[k]) >= MaxRequests
               /\ \A j \in timestamps[k] : served[k][i].at < served[k][j].at
        <3>1. Pruned(k, at) # timestamps[k]
            BY <1>3, <1>4, <2>5, PrunedIs
        <3>2. PICK j \in timestamps[k] : j \notin Pruned(k, at)
            BY <3>1, PrunedIs
        <3>3. served[k][i].at <= served[k][j].at
            <4>1. served[k][i].at \in Nat /\ served[k][j].at \in Nat
                BY <1>1, <2>1
            <4> QED
                BY <2>5, <4>1
        <3>4. served[k][i].at + Window <= at
            BY <2>3, <3>2, <3>3
        <3> QED
            BY <1>2, <2>1, <3>4
    <2> QED
        BY <2>1, <2>2, <2>4, <2>5 DEF LimiterOK, Forgotten
<1> QED
    BY <1>5 DEF Forgotten

\* and makes no window too full.
LEMMA AllowWindows ==
    ASSUME RateTypeOK, NEW k \in Keys, LimiterOK(k), NEW at \in Times, Allow(k, at)
    PROVE  Windows(k)'
<1> DEFINE n == Len(served[k]) + 1
<1>1. /\ n \in Nat /\ n - 1 \in Nat /\ DOMAIN served[k] = 1..n - 1
      /\ timestamps[k] \subseteq DOMAIN served[k]
      /\ \A i \in DOMAIN served[k] : served[k][i].at \in Nat
    BY KeptType
<1>2. /\ DOMAIN served'[k] = 1..n /\ served'[k][n].at = at /\ served'[k][n].life = life
      /\ \A i \in DOMAIN served[k] : served'[k][i] = served[k][i]
      /\ served'[k][n].overtaken <=> Overtaken(k, at)
    BY AllowWrites
<1>3. Cardinality(Pruned(k, at)) < MaxRequests
    BY DEF Allow
<1>4. at \in Nat /\ Window \in Nat /\ MaxRequests \in Nat
    BY DEF Times
<1> HIDE DEF n
<1>5. ASSUME NEW alive \in Lives, NEW t \in Times
      PROVE  Cardinality(Between(k, alive, t, t + Window - 1)') <= MaxRequests
    <2> DEFINE old == Between(k, alive, t, t + Window - 1)
               new == Between(k, alive, t, t + Window - 1)'
    <2>1. /\ t \in Nat
          /\ new = {i \in DOMAIN served'[k] : /\ served'[k][i].life = alive
                                              /\ ~served'[k][i].overtaken
                                              /\ t <= served'[k][i].at
                                              /\ served'[k][i].at <= t + Window - 1}
          /\ old = {i \in DOMAIN served[k] : /\ served[k][i].life = alive
                                             /\ ~served[k][i].overtaken
                                             /\ t <= served[k][i].at
                                             /\ served[k][i].at <= t + Window - 1}
        BY DEF Between, Times
    <2>2. CASE n \notin new
        <3>1. \A i : i \in DOMAIN served[k] <=> i \in DOMAIN served'[k] /\ i # n
            BY <1>1, <1>2
        <3>2. ASSUME NEW i \in DOMAIN served[k] PROVE i \in new <=> i \in old
            <4>1. i \in DOMAIN served'[k] /\ served'[k][i] = served[k][i]
                BY <1>2, <3>1
            <4> QED
                BY <2>1, <4>1
        <3>3. new = old
            BY <2>1, <2>2, <3>1, <3>2
        <3> QED
            BY <3>3 DEF LimiterOK, Windows
    <2>3. CASE n \in new
        <3>1. ~Overtaken(k, at) /\ t <= at /\ at <= t + Window - 1 /\ alive = life
            BY <1>2, <2>1, <2>3
        <3>2. ASSUME NEW i \in new, i # n
              PROVE  i \in Pruned(k, at)
            <4>1. i \in DOMAIN served[k] /\ t <= served[k][i].at /\ served[k][i].life = life
                <5>1. i \in DOMAIN served'[k] /\ t <= served'[k][i].at /\ served'[k][i].life = life
                    BY <2>1, <3>1
                <5>2. i \in DOMAIN served[k]
                    BY <1>1, <1>2, <3>2, <5>1
                <5> QED
                    BY <1>2, <5>1, <5>2
            <4>2. served[k][i].at > at - Window
                BY <1>1, <1>4, <2>1, <3>1, <4>1
            <4>3. \A j \in timestamps[k] : served[k][j].at <= at
                BY <1>1, <1>4, <3>1 DEF Overtaken
            <4>4. CASE i \in timestamps[k]
                BY <4>2, <4>4, PrunedIs
            <4>5. CASE \E j \in timestamps[k] : served[k][i].at + Window <= served[k][j].at
                <5>1. PICK j \in timestamps[k] : served[k][i].at + Window <= served[k][j].at
                    BY <4>5
                <5>2. /\ served[k][i].at \in Nat /\ served[k][j].at \in Nat
                      /\ served[k][j].at <= at
                    BY <1>1, <4>1, <4>3
                <5> QED
                    BY <1>4, <4>2, <5>1, <5>2
            <4>6. CASE /\ Cardinality(timestamps[k]) >= MaxRequests
                       /\ \A j \in timestamps[k] : served[k][i].at < served[k][j].at
                <5>1. ASSUME NEW j \in timestamps[k] PROVE served[k][j].at > at - Window
                    <6>1. /\ served[k][i].at < served[k][j].at
                          /\ served[k][i].at \in Nat /\ served[k][j].at \in Nat
                        BY <1>1, <4>1, <4>6
                    <6> QED
                        BY <1>4, <4>2, <6>1
                <5>2. Pruned(k, at) = timestamps[k]
                    BY <5>1, PrunedIs
                <5> QED
                    BY <1>3, <1>4, <4>6, <5>2, PrunedIs
            <4> QED
                BY <4>1, <4>4, <4>5, <4>6 DEF LimiterOK, Forgotten
        <3>3. new \in SUBSET (Pruned(k, at) \union {n})
            BY <3>2
        <3>4. /\ IsFiniteSet(Pruned(k, at) \union {n})
              /\ Cardinality(Pruned(k, at) \union {n}) <= MaxRequests
            <4>1. IsFiniteSet(Pruned(k, at)) /\ Cardinality(Pruned(k, at)) \in Nat
                BY PrunedIs
            <4>2. /\ IsFiniteSet(Pruned(k, at) \union {n})
                  /\ Cardinality(Pruned(k, at) \union {n}) =
                       IF n \in Pruned(k, at) THEN Cardinality(Pruned(k, at))
                       ELSE Cardinality(Pruned(k, at)) + 1
                BY <4>1, FS_AddElement
            <4>3. Cardinality(Pruned(k, at) \union {n}) \in Nat
                BY <4>2, FS_CardinalityType
            <4> QED
                BY <1>3, <1>4, <4>1, <4>2, <4>3
        <3>5. IsFiniteSet(new) /\ Cardinality(new) <= Cardinality(Pruned(k, at) \union {n})
            BY <3>3, <3>4, FS_Subset
        <3>6. Cardinality(new) \in Nat /\ Cardinality(Pruned(k, at) \union {n}) \in Nat
            BY <3>4, <3>5, FS_CardinalityType
        <3> QED
            BY <1>4, <3>4, <3>5, <3>6
    <2> QED
        BY <2>2, <2>3
<1> QED
    BY <1>5 DEF Windows

\* Letting a request through keeps the limiter's invariant,
LEMMA AllowStep ==
    ASSUME RateTypeOK, \A q \in Keys : LimiterOK(q), UNCHANGED now,
           NEW k \in Keys, NEW at \in Times, Allow(k, at)
    PROVE  RateTypeOK' /\ \A q \in Keys : LimiterOK(q)'
<1>1. /\ served[k] \in Seq(Passed) /\ Len(served[k]) + 1 \in Nat
      /\ DOMAIN served[k] = 1..Len(served[k]) /\ timestamps[k] \subseteq DOMAIN served[k]
    BY KeptType
<1>2. RateTypeOK'
    <2> DEFINE e == [at |-> at, life |-> life, overtaken |-> Overtaken(k, at)]
    <2>1. Overtaken(k, at) \in BOOLEAN
        BY DEF Overtaken
    <2>2. e \in Passed
        BY <2>1 DEF Passed, RateTypeOK
    <2> HIDE DEF e
    <2>3. Append(served[k], e) \in Seq(Passed)
        BY <1>1, <2>2
    <2>4. Pruned(k, at) \subseteq timestamps[k]
        BY DEF Pruned
    <2>5. /\ served \in [Keys -> Seq(Passed)] /\ timestamps \in [Keys -> SUBSET Nat]
          /\ told \in [Keys -> Nat \union {NotTold}] /\ now \in Times /\ life \in Lives
          /\ \A q \in Keys : timestamps[q] \subseteq DOMAIN served[q]
        BY DEF RateTypeOK
    <2>6. /\ served' = [served EXCEPT ![k] = Append(served[k], e)]
          /\ timestamps' = [timestamps EXCEPT ![k] = Pruned(k, at) \union {Len(served[k]) + 1}]
          /\ told' = [told EXCEPT ![k] = NotTold] /\ life' = life
        BY DEF Allow, e
    <2>7. Pruned(k, at) \union {Len(served[k]) + 1} \in SUBSET Nat
        BY <1>1, <2>4, <2>5
    <2>8. /\ served' \in [Keys -> Seq(Passed)] /\ timestamps' \in [Keys -> SUBSET Nat]
          /\ told' \in [Keys -> Nat \union {NotTold}] /\ now' \in Times /\ life' \in Lives
        BY <2>3, <2>5, <2>6, <2>7
    <2>9. \A q \in Keys : timestamps'[q] \subseteq DOMAIN served'[q]
        <3>1. timestamps'[k] \subseteq DOMAIN served'[k]
            <4>1. /\ timestamps'[k] = Pruned(k, at) \union {Len(served[k]) + 1}
                  /\ DOMAIN served'[k] = 1..Len(served[k]) + 1
                BY AllowWrites
            <4> QED
                BY <1>1, <2>4, <4>1
        <3>2. ASSUME NEW q \in Keys, q # k PROVE timestamps'[q] \subseteq DOMAIN served'[q]
            <4>1. served'[q] = served[q] /\ timestamps'[q] = timestamps[q]
                BY <2>5, <2>6, <3>2
            <4> QED
                BY <2>5, <4>1
        <3> QED
            BY <3>1, <3>2
    <2> QED
        BY <2>8, <2>9 DEF RateTypeOK
<1>3. LimiterOK(k)'
    <2>1. IsFiniteSet(Pruned(k, at)) /\ Cardinality(Pruned(k, at)) \in Nat
        BY PrunedIs
    <2>2. Cardinality(Pruned(k, at)) < MaxRequests
        BY DEF Allow
    <2>3. timestamps'[k] = Pruned(k, at) \union {Len(served[k]) + 1} /\ told'[k] = NotTold
        BY AllowWrites
    <2>4. /\ IsFiniteSet(Pruned(k, at) \union {Len(served[k]) + 1})
          /\ Cardinality(Pruned(k, at) \union {Len(served[k]) + 1}) =
               IF Len(served[k]) + 1 \in Pruned(k, at) THEN Cardinality(Pruned(k, at))
               ELSE Cardinality(Pruned(k, at)) + 1
        BY <2>1, FS_AddElement
    <2>5. IsFiniteSet(timestamps'[k]) /\ Cardinality(timestamps'[k]) <= MaxRequests
        BY <2>1, <2>2, <2>3, <2>4
    <2>6. Promised(k)'
        BY <2>3 DEF Promised
    <2>7. Past(k)'
        <3>1. /\ DOMAIN served'[k] = 1..Len(served[k]) + 1 /\ life' = life
              /\ \A i \in DOMAIN served[k] : served'[k][i] = served[k][i]
              /\ served'[k][Len(served[k]) + 1].life = life
            BY AllowWrites
        <3>2. life \in Nat /\ \A i \in DOMAIN served[k] : served[k][i].life <= life
            BY DEF RateTypeOK, Lives, LimiterOK, Past
        <3> QED
            BY <1>1, <3>1, <3>2 DEF Past
    <2> QED
        BY <2>5, <2>6, <2>7, AllowForgets, AllowWindows DEF LimiterOK
<1>4. ASSUME NEW q \in Keys, q # k, LimiterOK(q) PROVE LimiterOK(q)'
    <2>1. /\ served'[q] = served[q] /\ timestamps'[q] = timestamps[q] /\ told'[q] = told[q]
          /\ life' = life
        BY <1>4 DEF Allow, RateTypeOK
    <2> QED
        BY <1>4, <2>1, OtherKeys
<1> QED
    BY <1>2, <1>3, <1>4

\* The time a refusal names is after the first of those kept has left the window.
LEMMA RetryIs ==
    ASSUME RateTypeOK, NEW k \in Keys, LimiterOK(k), NEW at \in Times, Refuse(k, at)
    PROVE  \E i \in Pruned(k, at) :
               /\ served[k][i].at + Window < at + RetryAfter(k, at)
               /\ at + RetryAfter(k, at) \in Nat
<1>1. Pruned(k, at) # {}
    <2>1. Cardinality(Pruned(k, at)) >= MaxRequests
        BY DEF Refuse
    <2> QED
        BY <2>1, FS_EmptySet
<1>2. /\ Pruned(k, at) \in SUBSET Nat /\ timestamps[k] \subseteq DOMAIN served[k]
      /\ \A i \in DOMAIN served[k] : served[k][i].at \in Nat
    BY KeptType, PrunedIs
<1>3. PICK i \in Pruned(k, at) : i = First(Pruned(k, at))
    BY <1>1, <1>2, FirstIs
<1>4. served[k][i].at > at - Window /\ served[k][i].at \in Nat
    BY <1>2, <1>3, PrunedIs
<1>5. PICK x \in Nat : x = served[k][i].at + Window - at
    BY <1>4 DEF Times
<1>6. /\ (x \div Second + 1) * Second > x /\ x \div Second + 1 >= 1
      /\ (x \div Second + 1) * Second \in Nat
    BY RoundedUp
<1>7. RetryAfter(k, at) =
        IF x \div Second + 1 < 1 THEN Second ELSE (x \div Second + 1) * Second
    BY <1>3, <1>5 DEF RetryAfter
<1>8. RetryAfter(k, at) = (x \div Second + 1) * Second
    <2>1. x \div Second \in Nat
        OBVIOUS
    <2> QED
        BY <1>6, <1>7, <2>1
<1> QED
    BY <1>4, <1>5, <1>6, <1>8 DEF Times

\* and refusing it does too.
LEMMA RefuseStep ==
    ASSUME RateTypeOK, \A q \in Keys : LimiterOK(q), UNCHANGED now,
           NEW k \in Keys, NEW at \in Times, Refuse(k, at)
    PROVE  RateTypeOK' /\ \A q \in Keys : LimiterOK(q)'
<1>1. /\ served \in [Keys -> Seq(Passed)] /\ timestamps \in [Keys -> SUBSET Nat]
      /\ told \in [Keys -> Nat \union {NotTold}] /\ now \in Times /\ life \in Lives
      /\ \A q \in Keys : timestamps[q] \subseteq DOMAIN served[q]
    BY DEF RateTypeOK
<1>2. PICK i \in Pruned(k, at) : /\ served[k][i].at + Window < at + RetryAfter(k, at)
                                 /\ at + RetryAfter(k, at) \in Nat
    BY RetryIs
<1>3. /\ Cardinality(Pruned(k, at)) >= MaxRequests /\ served' = served /\ life' = life
      /\ timestamps' = [timestamps EXCEPT ![k] = Pruned(k, at)]
      /\ told' = [told EXCEPT ![k] = at + RetryAfter(k, at)]
    BY DEF Refuse
<1>4. Pruned(k, at) \subseteq timestamps[k]
    BY DEF Pruned
<1>5. RateTypeOK'
    BY <1>1, <1>2, <1>3, <1>4 DEF RateTypeOK
<1>6. timestamps'[k] = Pruned(k, at) /\ told'[k] = at + RetryAfter(k, at)
    BY <1>1, <1>3
<1>7. Promised(k)'
    BY <1>2, <1>3, <1>6 DEF Promised
<1>8. Windows(k)'
    <2>1. \A alive, t : Between(k, alive, t, t + Window - 1)' = Between(k, alive, t, t + Window - 1)
        BY <1>3 DEF Between
    <2> QED
        BY <2>1 DEF LimiterOK, Windows
<1>9. Forgotten(k)'
    <2>1. /\ \A j \in DOMAIN served[k] : served[k][j].at \in Nat
          /\ timestamps[k] \subseteq DOMAIN served[k]
        BY KeptType
    <2>2. at \in Nat /\ Window \in Nat
        BY DEF Times
    <2>3. ASSUME NEW m \in DOMAIN served'[k] \ timestamps'[k], served'[k][m].life = life',
                 ~ \E j \in timestamps'[k] : served'[k][m].at + Window <= served'[k][j].at
          PROVE  \A j \in timestamps'[k] : served'[k][m].at < served'[k][j].at
        <3>1. /\ m \in DOMAIN served[k] /\ m \notin Pruned(k, at) /\ served[k][m].at \in Nat
              /\ served[k][m].life = life
            BY <1>3, <1>6, <2>1, <2>3
        <3>2. SUFFICES ASSUME NEW j \in Pruned(k, at)
                       PROVE  served[k][m].at < served[k][j].at
            BY <1>3, <1>6
        <3>3. j \in timestamps[k] /\ served[k][j].at > at - Window /\ served[k][j].at \in Nat
            BY <1>4, <2>1, PrunedIs
        <3>4. CASE m \in timestamps[k]
            <4>1. ~ (served[k][m].at > at - Window)
                BY <3>1, <3>4, PrunedIs
            <4> QED
                BY <2>2, <3>1, <3>3, <4>1
        <3>5. CASE \E f \in timestamps[k] : served[k][m].at + Window <= served[k][f].at
            <4>1. PICK f \in timestamps[k] : served[k][m].at + Window <= served[k][f].at
                BY <3>5
            <4>2. f \notin Pruned(k, at)
                BY <1>3, <1>6, <2>3, <4>1
            <4>3. ~ (served[k][f].at > at - Window) /\ served[k][f].at \in Nat
                BY <2>1, <4>2, PrunedIs
            <4> QED
                BY <2>2, <3>1, <3>3, <4>1, <4>3
        <3>6. CASE \A f \in timestamps[k] : served[k][m].at < served[k][f].at
            BY <3>3, <3>6
        <3> QED
            BY <3>1, <3>4, <3>5, <3>6 DEF LimiterOK, Forgotten
    <2> QED
        BY <1>3, <1>6, <2>3 DEF Forgotten
<1>10. LimiterOK(k)'
    <2>1. IsFiniteSet(Pruned(k, at)) /\ Cardinality(Pruned(k, at)) <= MaxRequests
        <3>1. /\ IsFiniteSet(Pruned(k, at)) /\ Cardinality(Pruned(k, at)) \in Nat
              /\ Cardinality(timestamps[k]) \in Nat
              /\ Cardinality(Pruned(k, at)) <= Cardinality(timestamps[k])
            BY PrunedIs
        <3>2. Cardinality(timestamps[k]) <= MaxRequests
            BY DEF LimiterOK
        <3> QED
            BY <3>1, <3>2
    <2> QED
        BY <1>3, <1>6, <1>7, <1>8, <1>9, <2>1 DEF LimiterOK, Past
<1>11. ASSUME NEW q \in Keys, q # k PROVE LimiterOK(q)'
    <2>1. /\ served'[q] = served[q] /\ timestamps'[q] = timestamps[q] /\ told'[q] = told[q]
          /\ life' = life
        BY <1>1, <1>3, <1>11
    <2> QED
        BY <2>1, OtherKeys
<1> QED
    BY <1>5, <1>10, <1>11

\* A restart: what was let through was so in lives that are over.
LEMMA RestartStep ==
    ASSUME RateTypeOK, \A q \in Keys : LimiterOK(q), UNCHANGED now, Restart
    PROVE  RateTypeOK' /\ \A q \in Keys : LimiterOK(q)'
<1>1. /\ served' = served /\ told' = told /\ timestamps' = [k \in Keys |-> {}]
      /\ life < MaxLives /\ life' = life + 1
    BY DEF Restart
<1>2. life \in Nat /\ life' \in Lives
    BY <1>1 DEF RateTypeOK, Lives
<1>3. RateTypeOK'
    BY <1>1, <1>2 DEF RateTypeOK
<1>4. ASSUME NEW q \in Keys PROVE LimiterOK(q)'
    <2>1. served'[q] = served[q] /\ timestamps'[q] = {} /\ LimiterOK(q)
        BY <1>1
    <2>2. \A i \in DOMAIN served'[q] : served'[q][i].life <= life /\ served'[q][i].life \in Nat
        BY <2>1, KeptType DEF LimiterOK, Past
    <2>3. \A i \in DOMAIN served'[q] : served'[q][i].life <= life' /\ served'[q][i].life # life'
        BY <1>1, <1>2, <2>2
    <2>4. Past(q)' /\ Forgotten(q)' /\ Promised(q)'
        BY <2>1, <2>3 DEF Past, Forgotten, Promised
    <2>5. \A alive, t : Between(q, alive, t, t + Window - 1)' = Between(q, alive, t, t + Window - 1)
        BY <2>1 DEF Between
    <2>6. Windows(q)'
        BY <2>1, <2>5 DEF LimiterOK, Windows
    <2> QED
        BY <2>1, <2>4, <2>6, FS_EmptySet DEF LimiterOK
<1> QED
    BY <1>3, <1>4

\* What the limiter promises follows.
LEMMA LimiterPromise ==
    ASSUME RateTypeOK, \A k \in Keys : LimiterOK(k)
    PROVE  RateRespected
<1>1. SUFFICES ASSUME NEW k \in Keys, told[k] # NotTold, now >= told[k]
               PROVE  Cardinality(Pruned(k, now)) < MaxRequests
    BY DEF RateRespected, LimiterOK, Windows
<1>2. now \in Times /\ now \in Nat /\ told[k] \in Nat
    BY <1>1 DEF RateTypeOK, Times
<1>3. CASE timestamps[k] = {}
    <2>1. Pruned(k, now) = {}
        BY <1>3 DEF Pruned
    <2> QED
        BY <2>1, FS_EmptySet
<1>4. CASE timestamps[k] # {}
    <2>1. PICK i \in timestamps[k] : served[k][i].at + Window < told[k]
        BY <1>1, <1>4 DEF LimiterOK, Promised
    <2>2. served[k][i].at \in Nat
        BY KeptType
    <2>3. i \notin Pruned(k, now)
        BY <1>1, <1>2, <2>1, <2>2 DEF Pruned
    <2>4. Cardinality(Pruned(k, now)) # Cardinality(timestamps[k])
        BY <1>2, <2>1, <2>3, PrunedIs
    <2>5. Cardinality(timestamps[k]) <= MaxRequests
        BY DEF LimiterOK
    <2> QED
        BY <1>2, <2>4, <2>5, PrunedIs
<1> QED
    BY <1>3, <1>4

-----------------------------------------------------------------------------
(***************************************************************************)
(* Sessions and requests.                                                  *)
(***************************************************************************)
Late == {"found", "admitted", "welcome", "granting", "permitted"}
Asking == {"asking", "timed"}

\* A request is at a stage of its kind.
LEMMA Stages ==
    ASSUME TypeOK, NEW h \in Handlers, job[h] # Idle
    PROVE  /\ job[h] \in Request \/ job[h] \in Disabling
           /\ job[h].stage \in Late \union Asking \union {"known"} => job[h] \in Request
           /\ job[h].stage \in {"asked", "disabling", "removed"} => job[h] \in Disabling
           /\ job[h] \in Request => job[h].stage \in Late \union Asking \union {"known"}
           /\ job[h] \in Disabling => job[h].stage \in {"asked", "disabling", "removed"}
<1>1. job[h] \in Request \/ job[h] \in Disabling
    BY DEF TypeOK
<1>2. job[h] \in Request => job[h].stage \in Late \union Asking \union {"known"}
    BY DEF Request, Late, Asking
<1>3. job[h] \in Disabling => job[h].stage \in {"asked", "disabling", "removed"}
    BY DEF Disabling
<1> QED
    BY <1>1, <1>2, <1>3 DEF Late, Asking

\* An active session is a row with an owner.
LEMMA ActiveIs ==
    ASSUME TypeOK, NEW s \in Active
    PROVE  /\ s \in Sessions /\ session[s] \in Row /\ session[s].owner \in Users
           /\ session[s].status = "active" /\ session[s].last \in Times
           /\ session[s].created \in Times
<1>1. s \in Sessions /\ session[s].status = "active"
    BY DEF Active
<1>2. session[s] \in Row
    BY <1>1 DEF TypeOK, NotCreated
<1> QED
    BY <1>1, <1>2 DEF Row

\* Revoking ends sessions, and leaves the others as they are.
LEMMA RevokedIs ==
    ASSUME TypeOK, NEW S, session' = Revoked(S)
    PROVE  /\ session' \in [Sessions -> Row \union {NotCreated}]
           /\ \A u : ActiveOf(u)' = ActiveOf(u) \ S
<1>1. \A s \in Sessions : session[s] \in Row \union {NotCreated}
    BY DEF TypeOK
<1>2. ASSUME NEW s \in Sessions
      PROVE  /\ session'[s] \in Row \union {NotCreated}
             /\ s \in Active' <=> s \in Active /\ s \notin S
             /\ s \in Active' => session'[s].owner = session[s].owner
    <2>1. session'[s] = IF s \in S /\ session[s].status = "active"
                        THEN [status |-> "revoked", owner |-> session[s].owner,
                              created |-> 0, last |-> 0]
                        ELSE session[s]
        BY DEF Revoked
    <2>2. s \in Active <=> session[s].status = "active"
        BY DEF Active
    <2>3. s \in Active' <=> session'[s].status = "active"
        BY DEF Active
    <2>4. CASE s \in S /\ s \in Active
        <3>1. session[s].owner \in Users /\ 0 \in Times
            BY <2>4, ActiveIs DEF Times
        <3>2. session'[s] = [status |-> "revoked", owner |-> session[s].owner,
                             created |-> 0, last |-> 0]
            BY <2>1, <2>2, <2>4
        <3>3. session'[s] \in Row /\ session'[s].status = "revoked"
            BY <3>1, <3>2 DEF Row
        <3> QED
            BY <2>3, <2>4, <3>3
    <2>5. CASE ~ (s \in S /\ s \in Active)
        <3>1. session'[s] = session[s]
            BY <2>1, <2>2, <2>5
        <3> QED
            BY <1>1, <2>2, <2>3, <2>5, <3>1
    <2> QED
        BY <2>4, <2>5
<1>3. session' = [s \in Sessions |-> session'[s]]
    BY DEF Revoked
<1>4. session' \in [Sessions -> Row \union {NotCreated}]
    BY <1>2, <1>3
<1>5. ASSUME NEW u PROVE ActiveOf(u)' = ActiveOf(u) \ S
    <2>1. Active \subseteq Sessions /\ Active' \subseteq Sessions
        BY DEF Active
    <2> QED
        BY <1>2, <2>1 DEF ActiveOf
<1> QED
    BY <1>4, <1>5

\* A step of a request that ends or gets on, while sessions at most end.
LEMMA RequestStep ==
    ASSUME IInv, NEW h \in Handlers, NEW new \in Request \union {Idle},
           job' = [job EXCEPT ![h] = new],
           new # Idle /\ new.stage \in Late => ~new.disabled,
           UNCHANGED <<disabled, acl, present, strays, excused>>,
           session' \in [Sessions -> Row \union {NotCreated}],
           \A u : ActiveOf(u)' \subseteq ActiveOf(u),
           token' \subseteq Token, \A t \in token' : ~t.late, RateTypeOK'
    PROVE  TypeOK' /\ ShutOK'
<1>1. TypeOK /\ ShutOK
    BY DEF IInv
<1>2. job'[h] = new /\ \A g \in Handlers : g # h => job'[g] = job[g]
    BY <1>1 DEF TypeOK
<1>3. TypeOK'
    <2>1. job' \in [Handlers -> Request \union Disabling \union {Idle}]
        BY <1>1 DEF TypeOK
    <2> QED
        BY <1>1, <2>1 DEF TypeOK
<1>4. new # Idle => new.stage \notin {"disabling", "removed"}
    BY DEF Request
<1>5. AdmittedOK'
    BY <1>1, <1>2 DEF ShutOK, AdmittedOK, Late
<1>6. RevokingOK'
    <2>1. ASSUME NEW g \in Handlers, Underway(g)'
          PROVE  ActiveOf(job[g].user)' \subseteq job'[g].revoking \union strays'
        <3>1. g # h /\ job'[g] = job[g] /\ Underway(g)
            BY <1>2, <1>4, <2>1 DEF Underway
        <3>2. PICK u : u = job[g].user
            OBVIOUS
        <3>3. ActiveOf(u) \subseteq job[g].revoking \union strays
            BY <1>1, <3>1, <3>2 DEF ShutOK, RevokingOK
        <3>4. ActiveOf(u)' \subseteq job'[g].revoking \union strays'
            BY <3>1, <3>3
        <3> QED
            BY <3>1, <3>2, <3>4
    <2> QED
        BY <2>1 DEF RevokingOK
<1>7. RemovedOK'
    BY <1>1, <1>2, <1>4 DEF ShutOK, RemovedOK, At
<1>8. DisabledIsShutOut'
    BY <1>1, <1>5 DEF ShutOK, AdmittedOK, DisabledIsShutOut
<1> QED
    BY <1>3, <1>5, <1>6, <1>7, <1>8 DEF ShutOK

\* Requests other than those at the limiter leave it alone.
LEMMA LimiterStays ==
    ASSUME IInv, UNCHANGED rateVars, now' \in Times
    PROVE  RateTypeOK' /\ \A k \in Keys : LimiterOK(k)'
<1>1. RateTypeOK'
    BY DEF IInv, TypeOK, RateTypeOK, rateVars
<1>2. ASSUME NEW k \in Keys PROVE LimiterOK(k)'
    BY OtherKeys DEF IInv, rateVars
<1> QED
    BY <1>1, <1>2

\* A request that gets on is the same request.
LEMMA GoesIs ==
    ASSUME TypeOK, NEW h \in Handlers, job[h] \in Request, ~job[h].disabled,
           NEW stage \in Late, NEW cookie \in Sessions \union {NoSession},
           Goes(h, stage, cookie)
    PROVE  \E new \in Request : /\ job' = [job EXCEPT ![h] = new]
                                /\ new # Idle /\ ~new.disabled
<1> DEFINE new == [stage |-> stage, user |-> job[h].user, cookie |-> cookie,
                   disabled |-> job[h].disabled, camera |-> job[h].camera, at |-> 0]
<1>1. /\ job[h].user \in Users /\ job[h].disabled \in BOOLEAN /\ job[h].camera \in Cameras
      /\ 0 \in Times
    BY DEF Request, Times
<1>2. stage \in {"found", "admitted", "welcome", "granting", "permitted"}
    BY DEF Late
<1>3. new \in Request
    BY <1>1, <1>2 DEF Request
<1>4. new.stage = stage /\ stage # "idle" /\ Idle.stage = "idle"
    BY DEF Late, Idle
<1>5. new # Idle
    BY <1>4
<1>6. ~new.disabled
    OBVIOUS
<1>7. job' = [job EXCEPT ![h] = new]
    BY DEF Goes
<1> QED
    BY <1>3, <1>5, <1>6, <1>7

\* What a request of a user not disabled finds when it is past the authentication.
LEMMA LateRequest ==
    ASSUME IInv, NEW h \in Handlers, job[h] # Idle, job[h].stage \in Late
    PROVE  job[h] \in Request /\ ~job[h].disabled /\ job[h].user \in Users
           /\ job[h].camera \in Cameras /\ job[h].at \in Times
           /\ job[h].cookie \in Sessions \union {NoSession}
<1>1. job[h] \in Request
    BY Stages DEF IInv
<1>2. ~job[h].disabled
    BY DEF IInv, ShutOK, AdmittedOK, Late
<1> QED
    BY <1>1, <1>2 DEF Request

\* The steps of requests that leave sessions alone,
LEMMA PlainStep ==
    ASSUME IInv, NEW h \in Handlers, NEW new \in Request \union {Idle},
           job' = [job EXCEPT ![h] = new],
           new # Idle /\ new.stage \in Late => ~new.disabled,
           UNCHANGED <<session, token>>, RateTypeOK',
           UNCHANGED <<disabled, acl, present, strays, excused>>
    PROVE  TypeOK' /\ ShutOK'
<1>1. \A u : ActiveOf(u)' \subseteq ActiveOf(u)
    BY DEF ActiveOf, Active
<1>2. session' \in [Sessions -> Row \union {NotCreated}] /\ token' \subseteq Token
    BY DEF IInv, TypeOK
<1>3. \A t \in token' : ~t.late
    BY DEF IInv, ShutOK, DisabledIsShutOut
<1> QED
    BY <1>1, <1>2, <1>3, RequestStep

\* and the steps that leave the limiter alone too.
LEMMA QuietStep ==
    ASSUME IInv, NEW h \in Handlers,
           \/ \E u \in Users, c \in Cameras, s \in Active \union {NoSession} : ReadUser(h, u, s, c)
           \/ TurnAway(h) \/ Find(h) \/ Answer(h) \/ ReadAgain(h) \/ ReadClock(h)
           \/ Permit(h) \/ IssueFails(h)
    PROVE  IInv'
<1>1. UNCHANGED rateVars /\ now' \in Times
    BY DEF IInv, TypeOK, RateTypeOK, ReadUser, TurnAway, Find, Answer, ReadAgain, ReadClock,
           Permit, IssueFails, Proceeds
<1>2. RateTypeOK' /\ \A k \in Keys : LimiterOK(k)'
    BY <1>1, LimiterStays
<1>3. UNCHANGED <<session, token>> /\ UNCHANGED <<disabled, acl, present, strays, excused>>
    BY DEF ReadUser, TurnAway, Find, Answer, ReadAgain, ReadClock, Permit, IssueFails, Proceeds
<1>4. \E new \in Request \union {Idle} :
          /\ job' = [job EXCEPT ![h] = new]
          /\ new # Idle /\ new.stage \in Late => ~new.disabled
    <2>1. CASE Ends(h)
        BY <2>1 DEF Ends
    <2>2. ASSUME NEW u \in Users, NEW c \in Cameras, NEW s \in Active \union {NoSession},
                 ReadUser(h, u, s, c)
          PROVE  \E new \in Request : /\ job' = [job EXCEPT ![h] = new]
                                      /\ new # Idle /\ new.stage \in Late => ~new.disabled
        <3> DEFINE new == [stage |-> "known", user |-> u, cookie |-> s,
                           disabled |-> u \in disabled, camera |-> c, at |-> 0]
        <3>1. (u \in disabled) \in BOOLEAN /\ 0 \in Times /\ s \in Sessions \union {NoSession}
            BY DEF Times, Active
        <3>2. new \in Request
            BY <3>1 DEF Request
        <3>3. new.stage = "known" /\ "known" \notin Late
            BY DEF Late
        <3>4. job' = [job EXCEPT ![h] = new]
            BY <2>2 DEF ReadUser
        <3> QED
            BY <3>2, <3>3, <3>4
    <2>3. CASE Find(h)
        <3>1. /\ job[h] # Idle /\ job[h].stage = "known" /\ ~job[h].disabled
              /\ Found(h) # NoSession /\ Goes(h, "found", Found(h))
            BY <2>3 DEF Find, At
        <3>2. job[h] \in Request
            BY <3>1, Stages DEF IInv
        <3>3. Found(h) \in Sessions \union {NoSession}
            BY DEF Found, Active
        <3> QED
            BY <3>1, <3>2, <3>3, GoesIs DEF IInv, Late
    <2>4. CASE Permit(h)
        <3>1. job[h] # Idle /\ job[h].stage \in Late /\ Goes(h, "permitted", NoSession)
            BY <2>4 DEF Permit, At, Late
        <3>2. job[h] \in Request /\ ~job[h].disabled
            BY <3>1, LateRequest
        <3> QED
            BY <3>1, <3>2, GoesIs DEF IInv, Late
    <2>5. CASE ReadAgain(h) \/ ReadClock(h)
        <3>1. job[h] # Idle /\ job[h].stage \in Late \union Asking
            BY <2>5 DEF ReadAgain, ReadClock, Admitted, At, Late, Asking
        <3>2. job[h] \in Request /\ now \in Times /\ 0 \in Times
            BY <3>1, Stages DEF IInv, TypeOK, RateTypeOK, Times
        <3>3. /\ job[h].user \in Users /\ job[h].disabled \in BOOLEAN
              /\ job[h].camera \in Cameras
            BY <3>2 DEF Request
        <3>4. ASSUME NEW stage \in Asking, NEW dis \in BOOLEAN, NEW at \in Times
              PROVE  [stage |-> stage, user |-> job[h].user, cookie |-> NoSession,
                      disabled |-> dis, camera |-> job[h].camera, at |-> at] \in Request
            BY <3>3 DEF Request, Asking
        <3>5. PICK stage \in Asking, dis \in BOOLEAN, at \in Times :
                  job' = [job EXCEPT ![h] =
                            [stage |-> stage, user |-> job[h].user, cookie |-> NoSession,
                             disabled |-> dis, camera |-> job[h].camera, at |-> at]]
            <4>1. /\ (job[h].user \in disabled) \in BOOLEAN
                  /\ "asking" \in Asking /\ "timed" \in Asking
                BY DEF Asking
            <4> QED
                BY <2>5, <3>2, <3>3, <4>1 DEF ReadAgain, ReadClock
        <3> DEFINE new == [stage |-> stage, user |-> job[h].user, cookie |-> NoSession,
                           disabled |-> dis, camera |-> job[h].camera, at |-> at]
        <3>6. new \in Request
            BY <3>4
        <3>7. new.stage \notin Late
            BY DEF Asking, Late
        <3>8. job' = [job EXCEPT ![h] = new]
            BY <3>5
        <3> HIDE DEF new
        <3> QED
            BY <3>6, <3>7, <3>8
    <2> QED
        BY <2>1, <2>2, <2>3, <2>4, <2>5 DEF TurnAway, Answer, IssueFails
<1>5. TypeOK' /\ ShutOK'
    BY <1>2, <1>3, <1>4, PlainStep
<1> QED
    BY <1>2, <1>5 DEF IInv

\* Steps that revoke sessions.
LEMMA RevokingStep ==
    ASSUME IInv, NEW h \in Handlers, Deny(h) \/ Expire(h) \/ Revoke(h)
    PROVE  IInv'
<1>1. /\ UNCHANGED rateVars /\ now' \in Times /\ Ends(h)
      /\ UNCHANGED <<disabled, acl, token, present, strays, excused>>
    BY DEF IInv, TypeOK, RateTypeOK, Deny, Expire, Revoke, Proceeds
<1>2. RateTypeOK' /\ \A k \in Keys : LimiterOK(k)'
    BY <1>1, LimiterStays
<1>3. session' = session \/ \E S : session' = Revoked(S)
    BY DEF Deny, Expire, Revoke
<1>4. /\ session' \in [Sessions -> Row \union {NotCreated}]
      /\ \A u : ActiveOf(u)' \subseteq ActiveOf(u)
    <2>1. CASE session' = session
        BY <2>1 DEF IInv, TypeOK, ActiveOf, Active
    <2>2. ASSUME NEW S, session' = Revoked(S)
          PROVE  /\ session' \in [Sessions -> Row \union {NotCreated}]
                 /\ \A u : ActiveOf(u)' \subseteq ActiveOf(u)
        BY <2>2, RevokedIs DEF IInv
    <2> QED
        BY <1>3, <2>1, <2>2
<1>5. job' = [job EXCEPT ![h] = Idle]
    BY <1>1 DEF Ends
<1>6. token' \subseteq Token /\ \A t \in token' : ~t.late
    BY <1>1 DEF IInv, TypeOK, ShutOK, DisabledIsShutOut
<1>7. TypeOK' /\ ShutOK'
    BY <1>1, <1>2, <1>4, <1>5, <1>6, RequestStep
<1> QED
    BY <1>2, <1>7 DEF IInv

\* Touching a session keeps it the user's.
LEMMA TouchStep ==
    ASSUME IInv, NEW h \in Handlers, Touch(h)
    PROVE  IInv'
<1>1. /\ UNCHANGED rateVars /\ now \in Times /\ now' \in Times /\ Goes(h, "admitted", NoSession)
      /\ UNCHANGED <<disabled, acl, token, present, strays, excused>>
    BY DEF IInv, TypeOK, RateTypeOK, Touch, Proceeds
<1>2. RateTypeOK' /\ \A k \in Keys : LimiterOK(k)'
    BY <1>1, LimiterStays
<1>3. job[h] # Idle /\ job[h].stage \in Late
    BY DEF Touch, At, Late
<1>4. job[h] \in Request /\ ~job[h].disabled
    BY <1>3, LateRequest
<1>5. PICK new \in Request : job' = [job EXCEPT ![h] = new] /\ new # Idle /\ ~new.disabled
    BY <1>1, <1>4, GoesIs DEF IInv, Late
<1>6. /\ session' \in [Sessions -> Row \union {NotCreated}]
      /\ \A u : ActiveOf(u)' \subseteq ActiveOf(u)
    <2>1. CASE session' = session
        BY <2>1 DEF IInv, TypeOK, ActiveOf, Active
    <2>2. CASE job[h].cookie \in Active /\ session' = [session EXCEPT ![job[h].cookie].last = now]
        <3>1. PICK s \in Active : s = job[h].cookie
            BY <2>2
        <3>2. s \in Sessions /\ session[s] \in Row
            BY ActiveIs DEF IInv
        <3>3. PICK row \in Row : row = [session[s] EXCEPT !.last = now]
            BY <1>1, <3>2 DEF Row
        <3>4. session' = [session EXCEPT ![s] = row]
            BY <2>2, <3>1, <3>3
        <3>5. row.owner = session[s].owner /\ row.status = session[s].status
            BY <3>2, <3>3 DEF Row
        <3>6. session \in [Sessions -> Row \union {NotCreated}]
            BY DEF IInv, TypeOK
        <3>7. /\ session' \in [Sessions -> Row \union {NotCreated}]
              /\ \A r \in Sessions : /\ session'[r].owner = session[r].owner
                                     /\ session'[r].status = session[r].status
            BY <3>2, <3>4, <3>5, <3>6
        <3> QED
            BY <3>7 DEF ActiveOf, Active
    <2> QED
        BY <2>1, <2>2 DEF Touch
<1>7. token' \subseteq Token /\ \A t \in token' : ~t.late
    BY <1>1 DEF IInv, TypeOK, ShutOK, DisabledIsShutOut
<1>8. TypeOK' /\ ShutOK'
    BY <1>1, <1>2, <1>5, <1>6, <1>7, RequestStep
<1> QED
    BY <1>2, <1>8 DEF IInv

\* A session made for a user about to be disabled is a stray.
LEMMA SignInStep ==
    ASSUME IInv, NEW h \in Handlers, SignIn(h)
    PROVE  IInv'
<1>1. /\ UNCHANGED rateVars /\ now \in Times /\ now' \in Times /\ Goes(h, "welcome", NoSession)
      /\ UNCHANGED <<disabled, acl, token, present, excused>>
      /\ job[h] # Idle /\ job[h].stage = "known" /\ ~job[h].disabled
    BY DEF IInv, TypeOK, RateTypeOK, SignIn, At
<1>2. RateTypeOK' /\ \A k \in Keys : LimiterOK(k)'
    BY <1>1, LimiterStays
<1>3. TypeOK /\ ShutOK
    BY DEF IInv
<1>4. job[h] \in Request
    BY <1>1, <1>3, Stages
<1>5. PICK new \in Request : job' = [job EXCEPT ![h] = new] /\ new # Idle /\ ~new.disabled
    BY <1>1, <1>3, <1>4, GoesIs DEF Late
<1>6. PICK v \in Users : v = job[h].user
    BY <1>4 DEF Request
<1>7. PICK s \in Sessions :
          /\ session[s] = NotCreated
          /\ session' = [session EXCEPT ![s] = [status |-> "active", owner |-> v,
                                                created |-> now, last |-> now]]
          /\ strays' = IF Missed(v) THEN strays \union {s} ELSE strays
    BY <1>6 DEF SignIn
<1>8. [status |-> "active", owner |-> v, created |-> now, last |-> now] \in Row
    BY <1>1 DEF Row
<1>9. /\ session' \in [Sessions -> Row \union {NotCreated}]
      /\ \A r \in Sessions : r # s => session'[r] = session[r]
      /\ session'[s].owner = v
    BY <1>3, <1>7, <1>8 DEF TypeOK
<1>10. ASSUME NEW u
       PROVE  /\ u # v => ActiveOf(u)' \subseteq ActiveOf(u)
              /\ ActiveOf(u)' \subseteq ActiveOf(u) \union {s}
    BY <1>9 DEF ActiveOf, Active
<1>11. strays \subseteq strays' /\ (Missed(v) => s \in strays') /\ strays' \subseteq Sessions
    BY <1>3, <1>7 DEF TypeOK
<1>12. job'[h] = new /\ \A g \in Handlers : g # h => job'[g] = job[g]
    BY <1>3, <1>5 DEF TypeOK
<1>13. TypeOK'
    <2>1. job' \in [Handlers -> Request \union Disabling \union {Idle}]
        BY <1>3, <1>5 DEF TypeOK
    <2> QED
        BY <1>1, <1>2, <1>3, <1>9, <1>11, <2>1 DEF TypeOK
<1>14. new.stage \notin {"disabling", "removed"}
    BY DEF Request
<1>15. AdmittedOK'
    BY <1>3, <1>5, <1>12 DEF ShutOK, AdmittedOK
<1>16. RevokingOK'
    <2>1. ASSUME NEW g \in Handlers, Underway(g)'
          PROVE  ActiveOf(job[g].user)' \subseteq job'[g].revoking \union strays'
        <3>1. g # h /\ job'[g] = job[g] /\ Underway(g)
            BY <1>12, <1>14, <2>1 DEF Underway
        <3>2. PICK u : u = job[g].user
            OBVIOUS
        <3>3. ActiveOf(u) \subseteq job[g].revoking \union strays
            BY <1>3, <3>1, <3>2 DEF ShutOK, RevokingOK
        <3>4. u = v => Missed(v)
            BY <3>1, <3>2 DEF Missed
        <3>5. ActiveOf(u)' \subseteq job'[g].revoking \union strays'
            BY <1>10, <1>11, <3>1, <3>3, <3>4
        <3> QED
            BY <3>1, <3>2, <3>5
    <2> QED
        BY <2>1 DEF RevokingOK
<1>17. RemovedOK'
    BY <1>1, <1>3, <1>12, <1>14 DEF ShutOK, RemovedOK, At
<1>18. DisabledIsShutOut'
    <2>1. ASSUME NEW u \in disabled PROVE ActiveOf(u)' \subseteq strays'
        <3>1. ActiveOf(u) \subseteq strays
            BY <1>3 DEF ShutOK, DisabledIsShutOut
        <3>2. u = v => Missed(v)
            BY DEF Missed
        <3> QED
            BY <1>10, <1>11, <3>1, <3>2
    <2>2. /\ \A u \in disabled' : ActiveOf(u)' \subseteq strays'
          /\ \A t \in token' : ~t.late
          /\ \A w \in present' : w[1] \in disabled' => w \in excused'
        BY <1>1, <1>3, <2>1 DEF ShutOK, DisabledIsShutOut
    <2> QED
        BY <1>15, <2>2 DEF AdmittedOK, DisabledIsShutOut
<1> QED
    BY <1>2, <1>13, <1>15, <1>16, <1>17, <1>18 DEF IInv, ShutOK

-----------------------------------------------------------------------------
(***************************************************************************)
(* Tokens.                                                                 *)
(***************************************************************************)
\* A request at the limiter.
LEMMA LimiterStep ==
    ASSUME IInv, NEW h \in Handlers, Limited(h) \/ Admit(h)
    PROVE  IInv'
<1>1. /\ job[h] # Idle /\ job[h].stage \in Asking
      /\ UNCHANGED <<now, disabled, session, acl, token, present, strays, excused>>
      /\ Refuse(job[h].user, job[h].at) \/ Allow(job[h].user, job[h].at)
    BY DEF Limited, Admit, At, Untouched, Asking
<1>2. /\ job[h] \in Request /\ job[h].user \in Users /\ job[h].at \in Times
    BY <1>1, Stages DEF IInv, Request
<1>3. PICK k \in Keys, at \in Times : k = job[h].user /\ at = job[h].at
    BY <1>2
<1>4. RateTypeOK' /\ \A q \in Keys : LimiterOK(q)'
    BY <1>1, <1>3, AllowStep, RefuseStep DEF IInv, TypeOK
<1>5. \E new \in Request \union {Idle} :
          job' = [job EXCEPT ![h] = new] /\ (new # Idle => ~new.disabled)
    <2>1. CASE Ends(h)
        BY <2>1 DEF Ends
    <2>2. CASE ~job[h].disabled /\ Goes(h, "granting", NoSession)
        BY <1>2, <2>2, GoesIs DEF IInv, Late
    <2> QED
        BY <2>1, <2>2 DEF Limited, Admit
<1>6. TypeOK' /\ ShutOK'
    BY <1>1, <1>4, <1>5, PlainStep
<1> QED
    BY <1>4, <1>6 DEF IInv

\* A token is handed out to a request that was authenticated.
LEMMA IssueStep ==
    ASSUME IInv, NEW h \in Handlers, Issue(h)
    PROVE  IInv'
<1>1. /\ job[h] # Idle /\ job[h].stage \in Late /\ UNCHANGED rateVars /\ now' \in Times
      /\ now \in Times
      /\ UNCHANGED <<disabled, session, acl, present, strays, excused>> /\ Ends(h)
      /\ token' = token \union {[user |-> job[h].user, camera |-> job[h].camera,
                                 until |-> now + TokenLife, late |-> job[h].disabled]}
    BY DEF Issue, At, Untouched, Late, IInv, TypeOK, RateTypeOK
<1>2. job[h] \in Request /\ ~job[h].disabled /\ job[h].user \in Users /\ job[h].camera \in Cameras
    BY <1>1, LateRequest
<1>3. RateTypeOK' /\ \A k \in Keys : LimiterOK(k)'
    BY <1>1, LimiterStays
<1>4. PICK t \in Token : ~t.late /\ token' = token \union {t}
    <2> DEFINE t == [user |-> job[h].user, camera |-> job[h].camera,
                     until |-> now + TokenLife, late |-> job[h].disabled]
    <2>1. now + TokenLife \in Nat /\ job[h].disabled \in BOOLEAN
        BY <1>1, <1>2 DEF Times, Request
    <2>2. t \in Token
        BY <1>2, <2>1 DEF Token
    <2>3. ~t.late
        BY <1>2
    <2> QED
        BY <1>1, <2>2, <2>3
<1>5. token' \subseteq Token /\ \A x \in token' : ~x.late
    BY <1>4 DEF IInv, TypeOK, ShutOK, DisabledIsShutOut
<1>6. session' \in [Sessions -> Row \union {NotCreated}] /\ \A u : ActiveOf(u)' \subseteq ActiveOf(u)
    BY <1>1 DEF IInv, TypeOK, ActiveOf, Active
<1>7. job' = [job EXCEPT ![h] = Idle]
    BY <1>1 DEF Ends
<1>8. TypeOK' /\ ShutOK'
    BY <1>1, <1>3, <1>5, <1>6, <1>7, RequestStep
<1> QED
    BY <1>3, <1>8 DEF IInv

-----------------------------------------------------------------------------
(***************************************************************************)
(* The administrator.                                                      *)
(***************************************************************************)
\* What the steps of the administrator leave alone.
LEMMA AdministersStep ==
    ASSUME IInv, Administers, NEW h \in Handlers, NEW new \in Disabling \union {Idle},
           job' = [job EXCEPT ![h] = new],
           disabled' \subseteq Users, present' \subseteq Views,
           session' \in [Sessions -> Row \union {NotCreated}],
           strays' \subseteq Sessions, excused' \subseteq present',
           RevokingOK', RemovedOK',
           \A u \in disabled' : ActiveOf(u)' \subseteq strays',
           \A v \in present' : v[1] \in disabled' => v \in excused'
    PROVE  IInv'
<1>1. UNCHANGED rateVars /\ now' \in Times /\ acl' = acl /\ token' = token
    BY DEF Administers, IInv, TypeOK, RateTypeOK
<1>2. RateTypeOK' /\ \A k \in Keys : LimiterOK(k)'
    BY <1>1, LimiterStays
<1>3. TypeOK /\ ShutOK
    BY DEF IInv
<1>4. job' \in [Handlers -> Request \union Disabling \union {Idle}]
    BY <1>3 DEF TypeOK
<1>5. TypeOK'
    BY <1>1, <1>2, <1>3, <1>4 DEF TypeOK
<1>6. AdmittedOK'
    <2>1. new # Idle => new.stage \notin Late
        BY DEF Disabling, Late
    <2>2. job'[h] = new /\ \A g \in Handlers : g # h => job'[g] = job[g]
        BY <1>3 DEF TypeOK
    <2> QED
        BY <1>3, <2>1, <2>2 DEF ShutOK, AdmittedOK, Late
<1>7. DisabledIsShutOut'
    BY <1>1, <1>3, <1>6 DEF ShutOK, AdmittedOK, DisabledIsShutOut
<1> QED
    BY <1>2, <1>5, <1>6, <1>7 DEF IInv, ShutOK

\* Asking, and failing, change nothing but the handler;
LEMMA AskStep ==
    ASSUME IInv, NEW h \in Handlers, (\E u \in Users : AskDisable(h, u)) \/ DisableFails(h)
    PROVE  IInv'
<1>1. TypeOK /\ ShutOK
    BY DEF IInv
<1>2. UNCHANGED <<disabled, session, present, excused, strays>> /\ Administers
    BY DEF AskDisable, DisableFails
<1>3. PICK new \in Disabling \union {Idle} :
          /\ job' = [job EXCEPT ![h] = new]
          /\ new # Idle => new.stage = "asked"
    <2>1. CASE DisableFails(h)
        BY <2>1 DEF DisableFails, Ends
    <2>2. ASSUME NEW u \in Users, AskDisable(h, u)
          PROVE  \E new \in Disabling : /\ job' = [job EXCEPT ![h] = new]
                                        /\ new.stage = "asked"
        <3>1. [stage |-> "asked", user |-> u, revoking |-> {}] \in Disabling
            BY DEF Disabling
        <3> QED
            BY <2>2, <3>1 DEF AskDisable
    <2> QED
        BY <2>1, <2>2
<1>4. job'[h] = new /\ \A g \in Handlers : g # h => job'[g] = job[g]
    BY <1>1, <1>3 DEF TypeOK
<1>5. \A u : ActiveOf(u)' = ActiveOf(u)
    BY <1>2 DEF ActiveOf, Active
<1>6. RevokingOK'
    <2>1. ASSUME NEW g \in Handlers, Underway(g)'
          PROVE  ActiveOf(job[g].user)' \subseteq job'[g].revoking \union strays'
        <3>1. job'[g] = job[g] /\ Underway(g)
            BY <1>3, <1>4, <2>1 DEF Underway
        <3>2. PICK u : u = job[g].user
            OBVIOUS
        <3>3. ActiveOf(u) \subseteq job[g].revoking \union strays
            BY <1>1, <3>1, <3>2 DEF ShutOK, RevokingOK
        <3>4. ActiveOf(u)' \subseteq job'[g].revoking \union strays'
            BY <1>2, <1>5, <3>1, <3>3
        <3> QED
            BY <3>1, <3>2, <3>4
    <2> QED
        BY <2>1 DEF RevokingOK
<1>7. RemovedOK'
    BY <1>1, <1>2, <1>3, <1>4 DEF ShutOK, RemovedOK, At
<1>8. /\ \A u \in disabled' : ActiveOf(u)' \subseteq strays'
      /\ \A v \in present' : v[1] \in disabled' => v \in excused'
    BY <1>1, <1>2, <1>5 DEF ShutOK, DisabledIsShutOut
<1>9. /\ disabled' \subseteq Users /\ present' \subseteq Views
      /\ session' \in [Sessions -> Row \union {NotCreated}]
      /\ strays' \subseteq Sessions /\ excused' \subseteq present'
    BY <1>1, <1>2 DEF TypeOK
<1> QED
    BY <1>2, <1>3, <1>6, <1>7, <1>8, <1>9, AdministersStep

\* the sessions locked are those that are good;
LEMMA DisableStep ==
    ASSUME IInv, NEW h \in Handlers, Disable(h)
    PROVE  IInv'
<1>1. TypeOK /\ ShutOK
    BY DEF IInv
<1>2. /\ UNCHANGED <<disabled, session, present, excused, strays>> /\ Administers
      /\ job[h] # Idle /\ job[h].stage = "asked"
    BY DEF Disable, At
<1>3. PICK v \in Users : v = job[h].user
    BY <1>1, <1>2, Stages DEF Disabling
<1>4. PICK new \in Disabling : /\ job' = [job EXCEPT ![h] = new]
                               /\ new.stage = "disabling" /\ new.user = v
                               /\ new.revoking = ActiveOf(v)
    <2>1. ActiveOf(v) \in SUBSET Sessions
        BY DEF ActiveOf, Active
    <2>2. [stage |-> "disabling", user |-> v, revoking |-> ActiveOf(v)] \in Disabling
        BY <2>1 DEF Disabling
    <2> QED
        BY <1>3, <2>2 DEF Disable
<1>5. job'[h] = new /\ \A g \in Handlers : g # h => job'[g] = job[g]
    BY <1>1, <1>4 DEF TypeOK
<1>6. \A u : ActiveOf(u)' = ActiveOf(u)
    BY <1>2 DEF ActiveOf, Active
<1>7. RevokingOK'
    <2>1. ASSUME NEW g \in Handlers, Underway(g)', NEW u, u = job'[g].user
          PROVE  ActiveOf(u)' \subseteq job'[g].revoking \union strays'
        <3>1. CASE g = h
            BY <1>4, <1>5, <1>6, <2>1, <3>1
        <3>2. CASE g # h
            <4>1. job'[g] = job[g] /\ Underway(g)
                BY <1>5, <2>1, <3>2 DEF Underway
            <4>2. ActiveOf(u) \subseteq job[g].revoking \union strays
                BY <1>1, <2>1, <4>1 DEF ShutOK, RevokingOK
            <4> QED
                BY <1>2, <1>6, <4>1, <4>2
        <3> QED
            BY <3>1, <3>2
    <2> QED
        BY <2>1 DEF RevokingOK
<1>8. RemovedOK'
    BY <1>1, <1>2, <1>4, <1>5 DEF ShutOK, RemovedOK, At
<1>9. /\ \A u \in disabled' : ActiveOf(u)' \subseteq strays'
      /\ \A w \in present' : w[1] \in disabled' => w \in excused'
    BY <1>1, <1>2, <1>6 DEF ShutOK, DisabledIsShutOut
<1>10. /\ disabled' \subseteq Users /\ present' \subseteq Views
       /\ session' \in [Sessions -> Row \union {NotCreated}]
       /\ strays' \subseteq Sessions /\ excused' \subseteq present'
    BY <1>1, <1>2 DEF TypeOK
<1> QED
    BY <1>2, <1>4, <1>7, <1>8, <1>9, <1>10, AdministersStep

\* whoever the removal leaves in a room is excused;
LEMMA RemoveStep ==
    ASSUME IInv, NEW h \in Handlers, RemoveUserParticipants(h)
    PROVE  IInv'
<1>1. TypeOK /\ ShutOK
    BY DEF IInv
<1>2. /\ UNCHANGED <<disabled, session, strays>> /\ Administers
      /\ job[h] # Idle /\ job[h].stage = "disabling"
    BY DEF RemoveUserParticipants, At
<1>3. PICK v \in Users : v = job[h].user
    BY <1>1, <1>2, Stages DEF Disabling
<1>4. PICK new \in Disabling : /\ job' = [job EXCEPT ![h] = new]
                               /\ new.stage = "removed" /\ new.user = v
                               /\ new.revoking = job[h].revoking
    <2>1. job[h].revoking \in SUBSET Sessions
        BY <1>1, <1>2, Stages DEF Disabling
    <2>2. [stage |-> "removed", user |-> v, revoking |-> job[h].revoking] \in Disabling
        BY <2>1 DEF Disabling
    <2> QED
        BY <1>3, <2>2 DEF RemoveUserParticipants
<1>5. PICK removed : /\ removed \subseteq {w \in present : w[1] = v}
                     /\ present' = present \ removed
                     /\ excused' = (excused \ removed) \union ({w \in present : w[1] = v} \ removed)
    BY <1>3 DEF RemoveUserParticipants
<1>6. job'[h] = new /\ \A g \in Handlers : g # h => job'[g] = job[g]
    BY <1>1, <1>4 DEF TypeOK
<1>7. \A u : ActiveOf(u)' = ActiveOf(u)
    BY <1>2 DEF ActiveOf, Active
<1>8. RevokingOK'
    <2>1. ASSUME NEW g \in Handlers, Underway(g)', NEW u, u = job'[g].user
          PROVE  ActiveOf(u)' \subseteq job'[g].revoking \union strays'
        <3>1. Underway(g) /\ u = job[g].user /\ job'[g].revoking = job[g].revoking
            BY <1>2, <1>3, <1>4, <1>6, <2>1 DEF Underway
        <3>2. ActiveOf(u) \subseteq job[g].revoking \union strays
            BY <1>1, <3>1 DEF ShutOK, RevokingOK
        <3> QED
            BY <1>2, <1>7, <3>1, <3>2
    <2> QED
        BY <2>1 DEF RevokingOK
<1>9. RemovedOK'
    <2>1. ASSUME NEW g \in Handlers, At(g, "removed")', NEW w \in present', w[1] = job'[g].user
          PROVE  w \in excused'
        <3>1. CASE g = h
            BY <1>4, <1>5, <1>6, <2>1, <3>1
        <3>2. CASE g # h
            <4>1. At(g, "removed") /\ w[1] = job[g].user
                BY <1>6, <2>1, <3>2 DEF At
            <4>2. w \in excused
                BY <1>1, <1>5, <2>1, <4>1 DEF ShutOK, RemovedOK
            <4> QED
                BY <1>5, <2>1, <4>2
        <3> QED
            BY <3>1, <3>2
    <2> QED
        BY <2>1 DEF RemovedOK
<1>10. /\ \A u \in disabled' : ActiveOf(u)' \subseteq strays'
       /\ \A w \in present' : w[1] \in disabled' => w \in excused'
    BY <1>1, <1>2, <1>5, <1>7 DEF ShutOK, DisabledIsShutOut
<1>11. /\ disabled' \subseteq Users /\ present' \subseteq Views
       /\ session' \in [Sessions -> Row \union {NotCreated}]
       /\ strays' \subseteq Sessions /\ excused' \subseteq present'
    BY <1>1, <1>2, <1>5 DEF TypeOK
<1> QED
    BY <1>2, <1>4, <1>8, <1>9, <1>10, <1>11, AdministersStep

\* and the commit revokes what was locked.
LEMMA CommitStep ==
    ASSUME IInv, NEW h \in Handlers, CommitDisable(h)
    PROVE  IInv'
<1>1. TypeOK /\ ShutOK
    BY DEF IInv
<1>2. /\ UNCHANGED <<present, excused>> /\ Administers /\ job' = [job EXCEPT ![h] = Idle]
      /\ job[h] # Idle /\ job[h].stage = "removed"
    BY DEF CommitDisable, At, Ends
<1>3. PICK v \in Users, revoking \in SUBSET Sessions : v = job[h].user /\ revoking = job[h].revoking
    BY <1>1, <1>2, Stages DEF Disabling
<1>4. /\ disabled' = disabled \union {v} /\ session' = Revoked(revoking)
      /\ strays' = strays \ revoking
    BY <1>3 DEF CommitDisable
<1>5. job'[h] = Idle /\ \A g \in Handlers : g # h => job'[g] = job[g]
    BY <1>1, <1>2 DEF TypeOK
<1>6. /\ session' \in [Sessions -> Row \union {NotCreated}]
      /\ \A u : ActiveOf(u)' = ActiveOf(u) \ revoking
    BY <1>1, <1>4, RevokedIs
<1>7. RevokingOK'
    <2>1. ASSUME NEW g \in Handlers, Underway(g)', NEW u, u = job'[g].user
          PROVE  ActiveOf(u)' \subseteq job'[g].revoking \union strays'
        <3>1. job'[g] = job[g] /\ Underway(g)
            BY <1>5, <2>1 DEF Underway
        <3>2. ActiveOf(u) \subseteq job[g].revoking \union strays
            BY <1>1, <2>1, <3>1 DEF ShutOK, RevokingOK
        <3> QED
            BY <1>4, <1>6, <3>1, <3>2
    <2> QED
        BY <2>1 DEF RevokingOK
<1>8. RemovedOK'
    BY <1>1, <1>2, <1>5 DEF ShutOK, RemovedOK, At
<1>9. ASSUME NEW u \in disabled' PROVE ActiveOf(u)' \subseteq strays'
    <2>1. CASE u \in disabled
        BY <1>1, <1>4, <1>6, <2>1 DEF ShutOK, DisabledIsShutOut
    <2>2. CASE u = v
        <3>1. Underway(h)
            BY <1>2 DEF Underway
        <3>2. ActiveOf(v) \subseteq revoking \union strays
            BY <1>1, <1>3, <3>1 DEF ShutOK, RevokingOK
        <3> QED
            BY <1>4, <1>6, <2>2, <3>2
    <2> QED
        BY <1>4, <2>1, <2>2
<1>10. ASSUME NEW w \in present', w[1] \in disabled' PROVE w \in excused'
    <2>1. At(h, "removed")
        BY <1>2 DEF At
    <2> QED
        BY <1>1, <1>2, <1>3, <1>4, <1>10, <2>1 DEF ShutOK, RemovedOK, DisabledIsShutOut
<1>11. /\ disabled' \subseteq Users /\ present' \subseteq Views
       /\ strays' \subseteq Sessions /\ excused' \subseteq present'
    BY <1>1, <1>2, <1>4 DEF TypeOK
<1> QED
    BY <1>2, <1>6, <1>7, <1>8, <1>9, <1>10, <1>11, AdministersStep

-----------------------------------------------------------------------------
(***************************************************************************)
(* Everything else.                                                        *)
(***************************************************************************)
\* What happens in LiveKit, to permissions and to the clock is no step of a request: who
\* comes to a room while the user is disabled, or when the removal is over, is excused.
LEMMA OutsideStep ==
    ASSUME IInv, UNCHANGED <<rateVars, disabled, session, job, strays>>, now' \in Times,
           token' \subseteq token, acl' \subseteq Views, present' \subseteq Views,
           excused' \subseteq present',
           \A v \in present' \ excused' : v \in present \ excused \/ ~Overlooked(v[1])
    PROVE  IInv'
<1>1. TypeOK /\ ShutOK
    BY DEF IInv
<1>2. RateTypeOK' /\ \A k \in Keys : LimiterOK(k)'
    BY LimiterStays
<1>3. TypeOK'
    BY <1>1, <1>2 DEF TypeOK
<1>4. \A u : ActiveOf(u)' = ActiveOf(u)
    BY DEF ActiveOf, Active
<1>5. AdmittedOK'
    BY <1>1 DEF ShutOK, AdmittedOK
<1>6. RevokingOK'
    BY <1>1, <1>4 DEF ShutOK, RevokingOK, Underway
<1>7. ASSUME NEW h \in Handlers, At(h, "removed")', NEW v \in present', v[1] = job[h].user
      PROVE  v \in excused'
    <2>1. At(h, "removed") /\ Overlooked(v[1])
        BY <1>7 DEF At, Overlooked
    <2> QED
        BY <1>1, <1>7, <2>1 DEF ShutOK, RemovedOK
<1>8. RemovedOK'
    BY <1>7 DEF RemovedOK
<1>9. ASSUME NEW v \in present', v[1] \in disabled PROVE v \in excused'
    <2>1. Overlooked(v[1])
        BY <1>9 DEF Overlooked
    <2> QED
        BY <1>1, <1>9, <2>1 DEF ShutOK, DisabledIsShutOut
<1>10. DisabledIsShutOut'
    BY <1>1, <1>4, <1>5, <1>9 DEF ShutOK, AdmittedOK, DisabledIsShutOut
<1> QED
    BY <1>2, <1>3, <1>5, <1>6, <1>8, <1>10 DEF IInv, ShutOK

\* Coming and going: nobody has a token from after the disabling.
LEMMA RoomStep ==
    ASSUME IInv, Join \/ Leave
    PROVE  IInv'
<1>1. TypeOK /\ ShutOK
    BY DEF IInv
<1>2. /\ UNCHANGED <<rateVars, disabled, session, job, strays>> /\ now' \in Times
      /\ token' = token /\ acl' = acl
    BY <1>1 DEF Join, Leave, Viewing, TypeOK, RateTypeOK
<1>3. ASSUME NEW t \in token, NEW v, v = <<t.user, t.camera>>, v \notin present,
             present' = present \union {v},
             excused' = IF Overlooked(t.user) /\ ~t.late THEN excused \union {v} ELSE excused
      PROVE  IInv'
    <2>1. ~t.late
        BY <1>1 DEF ShutOK, DisabledIsShutOut
    <2>2. v \in Views /\ v[1] = t.user
        BY <1>1, <1>3 DEF TypeOK, Token, Views
    <2>3. excused' \subseteq present' /\ present' \subseteq Views
        BY <1>1, <1>3, <2>2 DEF TypeOK
    <2>4. \A w \in present' \ excused' : w \in present \ excused \/ ~Overlooked(w[1])
        BY <1>3, <2>1, <2>2
    <2> QED
        BY <1>1, <1>2, <2>3, <2>4, OutsideStep DEF TypeOK
<1>4. ASSUME NEW v \in present, present' = present \ {v}, excused' = excused \ {v}
      PROVE  IInv'
    <2>1. excused' \subseteq present' /\ present' \subseteq Views
        BY <1>1, <1>4 DEF TypeOK
    <2>2. \A w \in present' \ excused' : w \in present \ excused
        BY <1>4
    <2> QED
        BY <1>1, <1>2, <2>1, <2>2, OutsideStep DEF TypeOK
<1> QED
    BY <1>3, <1>4 DEF Join, Leave

\* Permissions, the clock and steps of others.
LEMMA IdleStep ==
    ASSUME IInv, (\E u \in Users, c \in Cameras : AclGrant(u, c) \/ AclRevoke(u, c)) \/ Tick
                 \/ UNCHANGED vars
    PROVE  IInv'
<1>1. TypeOK
    BY DEF IInv
<1>2. /\ UNCHANGED <<rateVars, disabled, session, job, strays>>
      /\ present' = present /\ excused' = excused
    BY DEF AclGrant, AclRevoke, Tick, vars, accessVars, rateVars
<1>3. now' \in Times
    <2>1. now' = now \/ (now < MaxTime /\ now' = now + 1)
        BY DEF AclGrant, AclRevoke, Tick, vars
    <2> QED
        BY <1>1, <2>1 DEF TypeOK, RateTypeOK, Times
<1>4. token' \subseteq token
    BY DEF AclGrant, AclRevoke, Tick, vars, accessVars
<1>5. acl' \subseteq Views
    <2>1. acl' \subseteq acl \/ \E u \in Users, c \in Cameras : acl' = acl \union {<<u, c>>}
        BY DEF AclGrant, AclRevoke, Tick, vars, accessVars
    <2> QED
        BY <1>1, <2>1 DEF TypeOK, Views
<1> QED
    BY <1>1, <1>2, <1>3, <1>4, <1>5, OutsideStep DEF TypeOK

\* A restart: the requests are gone.
LEMMA CrashStep ==
    ASSUME IInv, Crash
    PROVE  IInv'
<1>1. TypeOK /\ ShutOK
    BY DEF IInv
<1>2. /\ UNCHANGED <<now, disabled, session, acl, token, present, strays, excused>>
      /\ job' = [h \in Handlers |-> Idle] /\ Restart
    BY DEF Crash
<1>3. RateTypeOK' /\ \A k \in Keys : LimiterOK(k)'
    BY <1>1, <1>2, RestartStep DEF TypeOK, IInv
<1>4. TypeOK'
    BY <1>1, <1>2, <1>3 DEF TypeOK
<1>5. \A h \in Handlers : job'[h] = Idle
    BY <1>2
<1>6. AdmittedOK' /\ RevokingOK' /\ RemovedOK'
    BY <1>5 DEF AdmittedOK, RevokingOK, RemovedOK, Underway, At
<1>7. \A u : ActiveOf(u)' = ActiveOf(u)
    BY <1>2 DEF ActiveOf, Active
<1>8. DisabledIsShutOut'
    BY <1>1, <1>2, <1>5, <1>7 DEF ShutOK, DisabledIsShutOut
<1> QED
    BY <1>3, <1>4, <1>6, <1>8 DEF IInv, ShutOK

\* In the beginning nobody has anything,
LEMMA InitIInv ==
    ASSUME Init
    PROVE  IInv
<1>1. TypeOK
    BY DEF Init, RateInit, TypeOK, RateTypeOK, Times, Lives
<1>2. ASSUME NEW q \in Keys PROVE LimiterOK(q)
    <2>1. served[q] = <<>> /\ timestamps[q] = {} /\ told[q] = NotTold
        BY DEF Init, RateInit
    <2>2. Past(q) /\ Forgotten(q) /\ Promised(q)
        BY <2>1 DEF Past, Forgotten, Promised
    <2>3. \A alive, t : Between(q, alive, t, t + Window - 1) = {}
        BY <2>1 DEF Between
    <2>4. Windows(q)
        BY <2>3, FS_EmptySet DEF Windows
    <2> QED
        BY <2>1, <2>2, <2>4, FS_EmptySet DEF LimiterOK
<1>3. AdmittedOK /\ RevokingOK /\ RemovedOK
    BY DEF Init, AdmittedOK, RevokingOK, RemovedOK, Underway, At
<1>4. DisabledIsShutOut
    BY DEF Init, DisabledIsShutOut
<1> QED
    BY <1>1, <1>2, <1>3, <1>4 DEF IInv, ShutOK

\* and every step keeps the invariant.
LEMMA Invariance == Spec => []IInv
<1>1. ASSUME IInv, Next PROVE IInv'
    BY <1>1, QuietStep, RevokingStep, TouchStep, SignInStep, LimiterStep, IssueStep, AskStep,
       DisableStep, RemoveStep, CommitStep, RoomStep, IdleStep, CrashStep DEF Next
<1>2. ASSUME IInv, UNCHANGED vars PROVE IInv'
    BY <1>2, IdleStep
<1> QED
    BY <1>1, <1>2, InitIInv, PTL DEF Spec

\* TypeOK: users, sessions, tokens, requests and what the limiter keeps have the shapes the
\* code gives them.
THEOREM TypeCorrect == Spec => []TypeOK
<1>1. IInv => TypeOK
    BY DEF IInv
<1> QED
    BY <1>1, Invariance, PTL

\* RateRespected: no window of one life of the process lets too many requests through,
\* overtaken ones aside, and who comes back when the limiter said gets in.
THEOREM LimitsHold == Spec => []RateRespected
<1>1. IInv => RateRespected
    BY LimiterPromise DEF IInv, TypeOK
<1> QED
    BY <1>1, Invariance, PTL

\* DisabledIsShutOut: a disabled user has no session, token or room but what was in flight
\* when the administrator disabled it.
THEOREM DisabledStaysOut == Spec => []DisabledIsShutOut
<1>1. IInv => DisabledIsShutOut
    BY DEF IInv, ShutOK
<1> QED
    BY <1>1, Invariance, PTL
=============================================================================
