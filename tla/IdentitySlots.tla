---------------------------- MODULE IdentitySlots ----------------------------
(***************************************************************************)
(* What the gateway's registry of connected sessions promises the rest of  *)
(* the server, without the connection life cycle that keeps the promise:   *)
(* an identity is held by at most one session, a session holds at most one *)
(* identity, the slots taken never exceed max_users, and a session that    *)
(* arrives takes the slot from the one it displaces in a single step.      *)
(* SessionRegistry implements this specification.                          *)
(***************************************************************************)
EXTENDS Integers, FiniteSets

CONSTANTS Users,       \* identities
          Sessions,    \* connections
          NoSession,   \* the slot of an identity nobody is connected as
          MaxUsers     \* cfg.Server.MaxUsers

VARIABLE holder        \* holder[u] is the session connected as u (hub.byUser)

TypeOK == holder \in [Users -> Sessions \cup {NoSession}]

Taken == {u \in Users : holder[u] # NoSession}

HoldsNothing(s) == \A u \in Users : holder[u] # s

Init == holder = [u \in Users |-> NoSession]

\* A session takes an identity: a free slot only while there is room, a held
\* one from the session it displaces, whatever the occupancy.
Take(s, u) ==
    /\ HoldsNothing(s)
    /\ holder[u] = NoSession => Cardinality(Taken) < MaxUsers
    /\ holder' = [holder EXCEPT ![u] = s]

\* The holder of an identity gives it up.
Vacate(u) ==
    /\ holder[u] # NoSession
    /\ holder' = [holder EXCEPT ![u] = NoSession]

Next == \E u \in Users : Vacate(u) \/ \E s \in Sessions : Take(s, u)

Spec == Init /\ [][Next]_holder
==============================================================================
