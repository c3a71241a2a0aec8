----------------------------- MODULE OneSession -----------------------------
(***************************************************************************)
(* What the DAST session broker promises: every issuance key is granted at *)
(* most once, for good, and only the call it was granted to is answered    *)
(* with a session.  A grant may stay without an answer.                    *)
(***************************************************************************)
CONSTANTS
    IssuanceKeys,   \* one per repository, run attempt, head, scan profile and profile
    Calls,          \* calls of the broker, each with its own lease id
    None

VARIABLES
    granted,    \* the call each key was granted to, or None
    answered    \* calls that were answered with a session

vars == <<granted, answered>>

Init == granted = [k \in IssuanceKeys |-> None] /\ answered = {}

Grant(k, c) == /\ granted[k] = None
               /\ granted' = [granted EXCEPT ![k] = c]
               /\ UNCHANGED answered

Answer(k, c) == /\ granted[k] = c
                /\ answered' = answered \cup {c}
                /\ UNCHANGED granted

Next == \E k \in IssuanceKeys, c \in Calls : Grant(k, c) \/ Answer(k, c)

Spec == Init /\ [][Next]_vars
=============================================================================
