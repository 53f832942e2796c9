-------------------------- MODULE CredentialHistory --------------------------
(***************************************************************************)
(* What storing a user's Tesla credential promises, however many requests  *)
(* do it at once: the stored token sets form one history.  Each version is *)
(* given to one token set and is the one after the last, no token set is   *)
(* stored again, and each was either issued for a new grant or obtained    *)
(* with the very token set that it replaces.                               *)
(***************************************************************************)
EXTENDS Naturals

CONSTANTS
    Tokens,  \* token sets
    None     \* no token set

VARIABLES
    version,    \* the last version given out, 0 before the first
    current,    \* the token set stored under it
    versionOf,  \* per token set, the version it was stored under or 0
    replaced    \* per token set, the one it was obtained with and replaced

Init ==
    /\ version = 0
    /\ current = None
    /\ versionOf = [t \in Tokens |-> 0]
    /\ replaced = [t \in Tokens |-> None]

Store(t) ==
    /\ versionOf[t] = 0
    /\ version' = version + 1
    /\ current' = t
    /\ versionOf' = [versionOf EXCEPT ![t] = version + 1]

\* A new grant, which may replace any credential.
Connect(t) ==
    /\ Store(t)
    /\ UNCHANGED replaced

\* The outcome of refreshing the current credential.
Rotate(t) ==
    /\ version > 0
    /\ Store(t)
    /\ replaced' = [replaced EXCEPT ![t] = current]

Next == \E t \in Tokens : Connect(t) \/ Rotate(t)

Spec == Init /\ [][Next]_<<version, current, versionOf, replaced>>
=============================================================================
