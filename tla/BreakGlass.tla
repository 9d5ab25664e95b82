----------------------------- MODULE BreakGlass -----------------------------
(***************************************************************************)
(* Break-glass windows, with the alerts their opening raises. A window is  *)
(* a row that is active until its time is over or it is closed; a window   *)
(* may be opened while an older one is over but was not closed. Two        *)
(* requests may look at the rows before either has written (READ           *)
(* COMMITTED, no row locks).                                               *)
(***************************************************************************)
EXTENDS Alerts

\* Windows are known by the audit events that open them; the other watched
\* events raise their alerts the same way.
Windows == Events

VARIABLES
    win,            \* win[w]: its row, by what time makes of it
    desk,           \* desk[h]: the window handler h is opening or closing
    crowded,        \* windows opened while another opening was under way (history)
    verdict         \* verdict[h]: the last answer to a closing request (history)

windowVars == <<win, desk, crowded, verdict>>
vars == <<alertVars, windowVars, begun>>

Nothing == [does |-> "nothing"]
Busy(h) == job[h] # Idle \/ desk[h] # Nothing

Init ==
    /\ AlertsInit
    /\ win = [w \in Windows |-> "none"]
    /\ desk = [h \in Handlers |-> Nothing]
    /\ crowded = {}
    /\ verdict = [h \in Handlers |-> "none"]

Active == {w \in Windows : win[w] = "active"}
Unclosed == {w \in Windows : win[w] \in {"active", "expired"}}
Opening == {desk[h].window : h \in {g \in Handlers : desk[g].does = "opening"}}

-----------------------------------------------------------------------------
(***************************************************************************)
(* admin_break_glass_open. scalar_one_or_none raises when two rows are     *)
(* unclosed; an active window is a conflict.                               *)
(***************************************************************************)
Opens(h, w) ==
    /\ ~Busy(h) /\ Begins /\ win[w] = "none" /\ w \notin Opening
    /\ desk' = [desk EXCEPT ![h] = [does |-> "opening", window |-> w]]
    /\ crowded' = IF Opening # {} THEN crowded \union Opening \union {w} ELSE crowded
    /\ UNCHANGED <<alertVars, win, verdict>>

\* (Deviation: a window is opened whatever there is.)
OpenAny(h, w) == Cardinality(Unclosed) <= 1 /\ Opens(h, w)

Open(h, w) == Cardinality(Unclosed) <= 1 /\ Active = {} /\ Opens(h, w)

\* The row is committed with its audit event, for which an alert is raised.
StoreOpen(h) ==
    /\ desk[h].does = "opening"
    /\ win' = [win EXCEPT ![desk[h].window] = "active"]
    /\ desk' = [desk EXCEPT ![h] = Nothing]
    /\ Occurs(h, desk[h].window)
    /\ UNCHANGED <<crowded, verdict, begun>>

\* The audit event fails and takes the row along: 503.
OpenFails(h) ==
    /\ desk[h].does = "opening"
    /\ desk' = [desk EXCEPT ![h] = Nothing]
    /\ UNCHANGED <<alertVars, win, crowded, verdict, begun>>

\* auto_disable_at is reached.
Expire(w) ==
    /\ win[w] = "active"
    /\ win' = [win EXCEPT ![w] = "expired"]
    /\ UNCHANGED <<alertVars, desk, crowded, verdict, begun>>

-----------------------------------------------------------------------------
(***************************************************************************)
(* admin_break_glass_close.                                                *)
(***************************************************************************)
CloseFound(h, w) ==
    /\ ~Busy(h) /\ Begins /\ Unclosed = {w}
    /\ desk' = [desk EXCEPT ![h] = [does |-> "closing", window |-> w]]
    /\ UNCHANGED <<alertVars, win, crowded, verdict>>

Answers(h, answer) ==
    /\ verdict' = [verdict EXCEPT ![h] = answer]
    /\ UNCHANGED <<alertVars, crowded>>

CloseNone(h) ==
    /\ ~Busy(h) /\ Begins /\ Unclosed = {}
    /\ Answers(h, "none") /\ UNCHANGED <<win, desk>>

\* Two rows are unclosed and scalar_one_or_none raises: nothing is closed.
CloseAmbiguous(h) ==
    /\ ~Busy(h) /\ Begins /\ Cardinality(Unclosed) >= 2
    /\ Answers(h, "error") /\ UNCHANGED <<win, desk>>

\* (Deviation: a status no window has.)
StoreCloseOdd(h) ==
    /\ desk[h].does = "closing"
    /\ win' = [win EXCEPT ![desk[h].window] = "revoked"]
    /\ desk' = [desk EXCEPT ![h] = Nothing]
    /\ Answers(h, "closed") /\ UNCHANGED begun

StoreClose(h) ==
    /\ desk[h].does = "closing"
    /\ win' = [win EXCEPT ![desk[h].window] = "closed"]
    /\ desk' = [desk EXCEPT ![h] = Nothing]
    /\ Answers(h, "closed") /\ UNCHANGED begun

CloseFails(h) ==
    /\ desk[h].does = "closing"
    /\ desk' = [desk EXCEPT ![h] = Nothing]
    /\ Answers(h, "refused") /\ UNCHANGED <<win, begun>>

-----------------------------------------------------------------------------
\* The process ends.
Crash ==
    /\ \E h \in Handlers : Busy(h)
    /\ job' = Dies /\ desk' = [h \in Handlers |-> Nothing]
    /\ UNCHANGED <<stored, occurred, history, win, crowded, verdict, begun>>

Next ==
    \/ \E h \in Handlers :
         \/ \E w \in Windows : Open(h, w) \/ CloseFound(h, w)
         \/ StoreOpen(h) \/ OpenFails(h)
         \/ CloseNone(h) \/ CloseAmbiguous(h) \/ StoreClose(h) \/ CloseFails(h)
         \/ ~Busy(h) /\ AlertRequest(h) /\ UNCHANGED windowVars
         \/ AlertStep(h) /\ UNCHANGED <<windowVars, begun>>
    \/ \E w \in Windows : Expire(w)
    \/ Crash

Spec == Init /\ [][Next]_vars

-----------------------------------------------------------------------------
TypeOK ==
    /\ AlertsTypeOK
    /\ win \in [Windows -> {"none", "active", "expired", "closed"}]
    /\ desk \in [Handlers -> [does : {"opening", "closing"}, window : Windows]
                             \union {Nothing}]
    /\ crowded \subseteq Windows
    /\ verdict \in [Handlers -> {"none", "closed", "refused", "error"}]

(***************************************************************************)
(* Two windows are active at the same time only if their openings          *)
(* overlapped: the look at the rows and the insert are not one step.       *)
(***************************************************************************)
OneWindowAtATime ==
    \A v, w \in Active : v # w => v \in crowded /\ w \in crowded

(***************************************************************************)
(* As long as no two openings overlapped, a request to close does not end  *)
(* in an error of the server, also when a window ran out unclosed and      *)
(* another was opened after it (HANDOFF.md: the close endpoint "closes an  *)
(* active or expired-but-unclosed window").                                *)
(***************************************************************************)
ClosingWorks == crowded = {} => \A h \in Handlers : verdict[h] # "error"
=============================================================================
