----------------------------- MODULE AuditTrail -----------------------------
(***************************************************************************)
(* The audit log and its HMAC chain: record_audit_event, called by every   *)
(* handler that has to leave a trace, and the verifier behind              *)
(* GET /admin/audit/verify.                                                *)
(*                                                                         *)
(* Handlers run on several threads and each has its own transaction (READ  *)
(* COMMITTED). A writer reads the hash of the newest row it can see, signs *)
(* its own row over it, inserts it (which draws the next id) and commits.  *)
(* Nothing orders two writers. A hash stands for the id of its row: HMACs  *)
(* of different rows differ. Triggers forbid UPDATE and DELETE, so rows    *)
(* are only added.                                                         *)
(***************************************************************************)
EXTENDS Naturals, FiniteSets

CONSTANTS
    Writers,        \* handlers that record an event at the same time (a bound)
    Versions,       \* values AUDIT_HMAC_KEY_VERSION is given over time
    MaxRows         \* bound: ids drawn from the sequence

ASSUME VersionsAssumption == Versions # {}
ASSUME MaxRowsAssumption == MaxRows \in Nat

VARIABLES
    version,        \* AUDIT_HMAC_KEY_VERSION of the running server
    keys,           \* versions stored in audit_hmac_keys
    log,            \* ids of the committed rows of audit_log
    prev,           \* prev[i]: the row whose hash row i is signed over, 0: none
    key,            \* key[i]: hmac_key_version of row i
    drawn,          \* ids drawn from the sequence so far
    job,            \* job[w]: how far writer w is
    overlapped      \* two writers were at work at the same time (history)

vars == <<version, keys, log, prev, key, drawn, job, overlapped>>

Ids == 1..MaxRows
Idle == [stage |-> "idle"]
Job == [stage : {"signed", "inserted"}, prev : 0..MaxRows, key : Versions,
        addsKey : BOOLEAN, id : 0..MaxRows]

Busy == {w \in Writers : job[w] # Idle}

Init ==
    /\ version \in Versions
    /\ keys = {}
    /\ log = {}
    /\ prev = [i \in Ids |-> 0]
    /\ key = [i \in Ids |-> version]
    /\ drawn = 0
    /\ job = [w \in Writers |-> Idle]
    /\ overlapped = FALSE

-----------------------------------------------------------------------------
(***************************************************************************)
(* record_audit_event.                                                     *)
(***************************************************************************)

\* _latest_audit_hash: the row with the highest id among these, 0 if there is none.
Top(i, S) == \A j \in S : j <= i

\* (Deviation: off by one.)
NewestNext(S) == IF \E i \in S : Top(i, S) THEN 1 + CHOOSE i \in S : Top(i, S) ELSE 0

Newest(S) == IF \E i \in S : Top(i, S) THEN CHOOSE i \in S : Top(i, S) ELSE 0

\* The key of the running server is stored if it is not there yet. A second
\* transaction that wants to store the same key waits for the first one, and
\* fails if that commits.
KeyFree == version \in keys \/ \A w \in Busy : ~(job[w].addsKey /\ job[w].key = version)

Signs(w, over, adds) ==
    /\ job[w] = Idle
    /\ KeyFree
    /\ job' = [job EXCEPT ![w] = [stage |-> "signed", prev |-> over, key |-> version,
                                  addsKey |-> adds, id |-> 0]]
    /\ overlapped' = (overlapped \/ Busy # {})
    /\ UNCHANGED <<version, keys, log, prev, key, drawn>>

\* (Deviations: the key is not stored; the newest row is not looked up; rows
\* that are not committed are seen.)
SignKeyless(w) == Signs(w, Newest(log), FALSE)
SignFirst(w) == Signs(w, 0, version \notin keys)
SignDirty(w) == Signs(w, Newest(log \union {job[x].id : x \in Busy}), version \notin keys)

\* The newest hash is read and the row signed over it.
Sign(w) == Signs(w, Newest(log), version \notin keys)

\* The row is inserted: its id is drawn now. Nobody else sees it yet.
Insert(w) ==
    /\ job[w] # Idle /\ job[w].stage = "signed"
    /\ drawn < MaxRows
    /\ drawn' = drawn + 1
    /\ job' = [job EXCEPT ![w] = [stage |-> "inserted", prev |-> job[w].prev,
                                  key |-> job[w].key, addsKey |-> job[w].addsKey,
                                  id |-> drawn + 1]]
    /\ UNCHANGED <<version, keys, log, prev, key, overlapped>>

Commit(w) ==
    /\ job[w] # Idle /\ job[w].stage = "inserted"
    /\ log' = log \union {job[w].id}
    /\ prev' = [prev EXCEPT ![job[w].id] = job[w].prev]
    /\ key' = [key EXCEPT ![job[w].id] = job[w].key]
    /\ keys' = keys \union (IF job[w].addsKey THEN {job[w].key} ELSE {})
    /\ job' = [job EXCEPT ![w] = Idle]
    /\ UNCHANGED <<version, drawn, overlapped>>

\* Any statement or the commit fails: rolled back, an id drawn is not reused.
Rollback(w) ==
    /\ job[w] # Idle
    /\ job' = [job EXCEPT ![w] = Idle]
    /\ UNCHANGED <<version, keys, log, prev, key, drawn, overlapped>>

\* The server is restarted, perhaps with a new key: transactions end with it.
Restart(v) ==
    /\ version' = v
    /\ job' = [w \in Writers |-> Idle]
    /\ UNCHANGED <<keys, log, prev, key, drawn, overlapped>>

-----------------------------------------------------------------------------
(***************************************************************************)
(* verify_audit_chain_by_key_version over the rows first..last: in order   *)
(* of id, each row must be signed over the row before it, with a key that  *)
(* is stored. Where the range starts, the hash before it is looked up.     *)
(***************************************************************************)
Below(i) == {j \in log : j < i}

Linked(i) == prev[i] = Newest(Below(i))

Valid(first, last) ==
    \A i \in log \intersect first..last : key[i] \in keys /\ Linked(i)

-----------------------------------------------------------------------------
Next ==
    \/ \E w \in Writers : Sign(w) \/ Insert(w) \/ Commit(w) \/ Rollback(w)
    \/ \E v \in Versions : Restart(v)

Spec == Init /\ [][Next]_vars

-----------------------------------------------------------------------------
(***************************************************************************)
(* Properties.                                                             *)
(***************************************************************************)

\* Every variable keeps to the values its column can have.
TypeOK ==
    /\ version \in Versions
    /\ keys \subseteq Versions
    /\ log \subseteq Ids
    /\ prev \in [Ids -> 0..MaxRows]
    /\ key \in [Ids -> Versions]
    /\ drawn \in 0..MaxRows
    /\ job \in [Writers -> Job \union {Idle}]
    /\ overlapped \in BOOLEAN

\* However writers interleave, fail and restart, a row is signed over an earlier
\* row that is really in the log, and with a key that is stored: no rollback
\* takes away what somebody signed over, so following prev_hash from any row
\* ends at a first row (_latest_audit_hash, _ensure_hmac_key).
SignedOverHistory ==
    \A i \in log :
        /\ prev[i] # 0 => prev[i] \in log /\ prev[i] < i
        /\ key[i] \in keys

\* As long as writers did not overlap, every range verifies, also across failed
\* writes, restarts and new keys.
SerialChainIsValid == ~overlapped => \A i, j \in Ids : Valid(i, j)

\* A break does not heal: no later row, not even one with a smaller id that is
\* committed late, makes a row verify that did not (the log is append-only).
BreaksStay == [][\A i \in log : ~Linked(i) => ~Linked(i)']_vars

(***************************************************************************)
(* What the documents say and the code does not do.                        *)
(***************************************************************************)

\* docs/planning/secure-cctv-monitoring-system-v4.md: the audit hash chain
\* verifies cleanly.
ChainVerifies == Valid(1, MaxRows)
=============================================================================
