--------------------------- MODULE CommandPromise ---------------------------
(***************************************************************************)
(* What the gateway command queue promises, whatever happens to the        *)
(* connections between the control plane and a gateway:                    *)
(*                                                                         *)
(*   - a command is put into a gateway's hands only while it is open;      *)
(*   - the gateway performs or refuses only what is in its hands;          *)
(*   - a command that left "pending" is never open again;                  *)
(*   - the verdict "accepted" is only given to a command the gateway       *)
(*     performed, "rejected" only to one it refused.                       *)
(*                                                                         *)
(* The promise is silent about which of two verdicts wins: the code lets a *)
(* late acknowledgement replace "cancelled" and "expired", and a slow      *)
(* cancel replace an acknowledgement.                                      *)
(***************************************************************************)

CONSTANT Commands   \* identifiers of rows of the command queue

VARIABLES
    verdict,        \* verdict[c]: "none" until issued, "pending" while open
    held,           \* the commands in the gateway's hands
    done,           \* the commands the gateway performed at least once
    refused         \* the commands the gateway refused at least once

promiseVars == <<verdict, held, done, refused>>

Verdicts == {"accepted", "rejected", "expired", "cancelled"}

Open == {c \in Commands : verdict[c] = "pending"}

Init ==
    /\ verdict = [c \in Commands |-> "none"]
    /\ held = {}
    /\ done = {}
    /\ refused = {}

Issue(c) ==
    /\ verdict[c] = "none"
    /\ verdict' = [verdict EXCEPT ![c] = "pending"]
    /\ UNCHANGED <<held, done, refused>>

\* The gateway's hands change: it may lose anything, it gains open commands.
Handle ==
    /\ held' \subseteq held \union Open
    /\ UNCHANGED <<verdict, done, refused>>

Perform(c) ==
    /\ c \in held
    /\ held' = held \ {c}
    /\ done' = done \union {c}
    /\ UNCHANGED <<verdict, refused>>

Refuse(c) ==
    /\ c \in held
    /\ held' = held \ {c}
    /\ refused' = refused \union {c}
    /\ UNCHANGED <<verdict, done>>

Settle(c, v) ==
    /\ verdict[c] # "none"
    /\ v = "accepted" => c \in done
    /\ v = "rejected" => c \in refused
    /\ v = "expired" => c \in Open
    /\ verdict' = [verdict EXCEPT ![c] = v]
    /\ UNCHANGED <<held, done, refused>>

\* One maintenance pass closes any number of open commands at once.
ExpireAll(stale) ==
    /\ stale \subseteq Open
    /\ verdict' = [c \in Commands |-> IF c \in stale THEN "expired" ELSE verdict[c]]
    /\ UNCHANGED <<held, done, refused>>

Next ==
    \/ \E c \in Commands : Issue(c) \/ Perform(c) \/ Refuse(c)
    \/ \E c \in Commands, v \in Verdicts : Settle(c, v)
    \/ \E stale \in SUBSET Commands : ExpireAll(stale)
    \/ Handle

Spec == Init /\ [][Next]_promiseVars
=============================================================================
