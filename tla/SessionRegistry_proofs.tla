------------------------ MODULE SessionRegistry_proofs ------------------------
(***************************************************************************)
(* The registry's safety, for any number of identities and connections and *)
(* any limits.  Registry is the inductive invariant: coherence of the two  *)
(* maps needs to know that a connection that has gone back to being        *)
(* nobody, or has removed itself, is no longer registered, and that one    *)
(* that is somebody has an identity; the bound on occupancy needs the      *)
(* coherence, because displacing must delete exactly one entry; the socket *)
(* counter stays a natural number because it counts the open requests.     *)
(***************************************************************************)
EXTENDS SessionRegistry, FiniteSetTheorems, TLAPS

\* A connection past applyIdentity knows who it is until clearIdentity.
IdentityKnown ==
    \A s \in Sessions : phase[s] \in Identified => ident[s] \in Users

\* The requests being served, refused ones included.
Requests == {s \in Sessions : phase[s] \notin {"new", "gone"}}

\* Server.live counts them.
LiveCounts == live = Cardinality(Requests)

\* The types of all variables but the counter.
TypesButLive ==
    /\ phase \in [Sessions -> Phases]
    /\ closed \in [Sessions -> BOOLEAN]
    /\ armed \in [Sessions -> BOOLEAN]
    /\ attempts \in [Sessions -> Nat]
    /\ ident \in [Sessions -> Users \cup {NoUser}]
    /\ row \in [Sessions -> Statuses]
    /\ saving \in [Sessions -> Statuses]
    /\ sessions \in SUBSET Sessions
    /\ byUser \in [Users -> Sessions \cup {NoSession}]
    /\ displaced \in [Sessions -> Sessions \cup {NoSession}]
    /\ status \in [Users -> Statuses]
    /\ shown \in [Users -> BOOLEAN]
    /\ overlapped \in BOOLEAN

Registry ==
    TypesButLive /\ RegistryCoherent /\ NothingLeftBehind /\ IdentityKnown

USE DEF Goto, Leave, connVars, identityVars, hubVars, presenceVars

-----------------------------------------------------------------------------
(* Types                                                                   *)

\* A step of a connection that knows its identity keeps every type.
LEMMA TypesStep ==
    ASSUME TypesButLive, IdentityKnown, [Next]_vars
    PROVE  TypesButLive'
<1> USE RegistryAssumption DEF TypesButLive, IdentityKnown
<1>1. CASE UNCHANGED vars
  BY <1>1 DEF vars
<1>2. ASSUME NEW s \in Sessions, Proceed(s) \/ Environment(s) \/ AuthDeadline(s) \/ CloseGuesser(s)
      PROVE  TypesButLive'
  <2>1. CASE Arrive(s)
    BY <2>1 DEF Arrive, Admitted, Phases, Upgraded
  <2>2. CASE Refuse(s) \/ Drop(s)
    BY <2>2 DEF Refuse, Drop, Phases
  <2>12. CASE AuthDeadline(s)
    BY <2>12 DEF AuthDeadline, Due
  <2>13. CASE CloseGuesser(s)
    BY <2>13 DEF CloseGuesser
  <2>14. CASE FailedAttempt(s)
    BY <2>14 DEF FailedAttempt, Counted
  <2>3. ASSUME NEW u \in Users, Authenticate(s, u)
        PROVE  TypesButLive'
    BY <2>3 DEF Authenticate, Counted, Phases, Upgraded, Identified
  <2>4. CASE Add(s)
    BY <2>4 DEF Add, Without, Phases, Upgraded, Identified, Registered
  <2>5. CASE AddFull(s) \/ BuildReady(s) \/ ClearIdentity(s)
    BY <2>5 DEF AddFull, BuildReady, ClearIdentity, Phases, Upgraded, Identified, Registered
  <2>6. CASE CloseDisplaced(s)
    BY <2>6 DEF CloseDisplaced, CloseOlder, Phases, Upgraded, Identified, Registered
  <2>7. CASE SnapshotFailure(s) \/ FinishRemove(s)
    BY <2>7 DEF SnapshotFailure, FinishRemove, Remove, Phases, Upgraded, Identified, Registered
  <2>8. CASE AnnounceArrival(s)
    BY <2>8 DEF AnnounceArrival, Phases, Upgraded, Identified, Registered, ArrivalSeen
  <2>9. ASSUME NEW new \in Statuses, SaveStatus(s, new)
        PROVE  TypesButLive'
    BY <2>9 DEF SaveStatus, Phases, Upgraded, Identified, Registered
  <2>10. CASE TellStatus(s)
    <3>1. ident[s] \in Users
      BY <2>10 DEF TellStatus, Identified, Registered
    <3>2. \A was, now : \A before \in BOOLEAN : Presence(was, now, before) \in BOOLEAN
      BY DEF Presence
    <3>3. CASE byUser[ident[s]] = NoSession
      BY <2>10, <3>1, <3>3 DEF TellStatus, Phases, Upgraded, Identified, Registered
    <3>4. CASE byUser[ident[s]] # NoSession
      <4>1. byUser[ident[s]] \in Sessions
        BY <3>1, <3>4
      <4>2. shown' \in [Users -> BOOLEAN]
        BY <2>10, <3>1, <3>2, <3>4 DEF TellStatus
      <4> QED
        BY <2>10, <3>4, <4>1, <4>2 DEF TellStatus, Phases, Upgraded, Identified, Registered
    <3> QED
      BY <3>3, <3>4
  <2>11. CASE EndRead(s) \/ FinishRecheck(s)
    BY <2>11 DEF EndRead, FinishRecheck, Phases, Upgraded, Identified, Registered
  <2>15. CASE AnnounceDeparture(s)
    BY <2>15 DEF AnnounceDeparture, Phases
  <2> HIDE DEF TypesButLive, IdentityKnown
  <2> QED
    BY <1>2, <2>1, <2>2, <2>3, <2>4, <2>5, <2>6, <2>7, <2>8, <2>9, <2>10, <2>11,
       <2>12, <2>13, <2>14, <2>15 DEF Proceed, Environment
<1> QED
  BY <1>1, <1>2 DEF Next
-----------------------------------------------------------------------------
(* The hub's two maps                                                      *)

\* Removing a session empties its slot if and only if it still holds it, and
\* leaves every other entry as it was.
LEMMA RemoveKeepsCoherence ==
    ASSUME Registry, NEW s \in Sessions, Remove(s), ident' = ident
    PROVE  RegistryCoherent' /\ s \notin sessions' /\ sessions' \subseteq sessions
BY RegistryAssumption DEF Registry, TypesButLive, RegistryCoherent, Remove, SlotsOf

\* A session that is not registered yet and takes its identity's slot deletes
\* exactly the entry that led there before.
LEMMA AddKeepsCoherence ==
    ASSUME Registry, NEW s \in Sessions, Add(s)
    PROVE  RegistryCoherent' /\ s \notin sessions
<1> USE RegistryAssumption DEF Registry, TypesButLive, RegistryCoherent, Add, Without
<1>1. s \notin sessions /\ ident[s] \in Users
  BY DEF NothingLeftBehind, IdentityKnown, Registered, Identified
<1>2. \A t \in sessions' : ident'[t] \in Users /\ byUser'[ident'[t]] = t
  BY <1>1
<1>3. \A u \in Users : byUser'[u] # NoSession =>
          byUser'[u] \in sessions' /\ ident'[byUser'[u]] = u
  BY <1>1
<1> QED
  BY <1>1, <1>2, <1>3

\* The coherence of the maps, and what keeps it, survives every step.
LEMMA RegistryStep ==
    ASSUME Registry, [Next]_vars
    PROVE  Registry'
<1>1. TypesButLive'
  BY TypesStep DEF Registry
<1>2. CASE UNCHANGED vars
  BY <1>2, <1>1 DEF Registry, TypesButLive, vars, RegistryCoherent, NothingLeftBehind, IdentityKnown
<1>3. ASSUME NEW s \in Sessions, Proceed(s) \/ Environment(s) \/ AuthDeadline(s) \/ CloseGuesser(s)
      PROVE  RegistryCoherent' /\ NothingLeftBehind' /\ IdentityKnown'
  <2> DEFINE Goal == RegistryCoherent' /\ NothingLeftBehind' /\ IdentityKnown'
  \* The steps that touch neither map nor any identity, by where they go.
  <2>1. ASSUME UNCHANGED <<sessions, byUser, ident>>,
               phase'[s] \in Identified => phase[s] \in Identified,
               s \in sessions => phase'[s] \in Registered,
               \A t \in Sessions \ {s} : phase'[t] = phase[t]
        PROVE  Goal
    BY <2>1 DEF Registry, TypesButLive, RegistryCoherent, NothingLeftBehind, IdentityKnown
  <2>2. CASE Arrive(s) \/ Refuse(s) \/ Drop(s)
    BY <2>1, <2>2 DEF Arrive, Refuse, Drop, Registry, TypesButLive, NothingLeftBehind,
                      Registered, Identified
  <2>3. CASE AuthDeadline(s) \/ CloseGuesser(s) \/ FailedAttempt(s)
    BY <2>1, <2>3 DEF AuthDeadline, CloseGuesser, FailedAttempt, Registry, NothingLeftBehind
  <2>4. ASSUME NEW u \in Users, Authenticate(s, u)
        PROVE  Goal
    <3>1. s \notin sessions
      BY <2>4 DEF Authenticate, Registry, NothingLeftBehind, Registered
    <3> QED
      BY <2>4, <3>1 DEF Authenticate, Registry, TypesButLive, RegistryCoherent,
                        NothingLeftBehind, IdentityKnown, Registered, Identified
  <2>5. CASE Add(s)
    BY <2>5, AddKeepsCoherence
       DEF Add, Without, Registry, TypesButLive, NothingLeftBehind, IdentityKnown,
           Registered, Identified
  <2>6. CASE AddFull(s)
    BY <2>1, <2>6 DEF AddFull, Registry, TypesButLive, NothingLeftBehind, Registered, Identified
  <2>7. CASE CloseDisplaced(s) \/ BuildReady(s) \/ AnnounceArrival(s)
    BY <2>1, <2>7 DEF CloseDisplaced, BuildReady, AnnounceArrival, Registry, TypesButLive,
                      Registered, Identified
  <2>8. CASE SnapshotFailure(s)
    BY <2>8, RemoveKeepsCoherence
       DEF SnapshotFailure, Registry, TypesButLive, NothingLeftBehind, IdentityKnown,
           Registered, Identified
  <2>9. CASE FinishRemove(s)
    BY <2>9, RemoveKeepsCoherence
       DEF FinishRemove, Registry, TypesButLive, NothingLeftBehind, IdentityKnown,
           Registered, Identified
  <2>10. CASE ClearIdentity(s)
    <3>1. s \notin sessions
      BY <2>10 DEF ClearIdentity, Registry, NothingLeftBehind, Registered
    <3> QED
      BY <2>10, <3>1 DEF ClearIdentity, Registry, TypesButLive, RegistryCoherent,
                         NothingLeftBehind, IdentityKnown, Registered, Identified
  <2>11. ASSUME NEW new \in Statuses, SaveStatus(s, new)
         PROVE  Goal
    BY <2>1, <2>11 DEF SaveStatus, Registry, TypesButLive, Registered, Identified
  <2>12. CASE TellStatus(s)
    BY <2>1, <2>12 DEF TellStatus, Registry, TypesButLive, Registered, Identified
  <2>13. CASE EndRead(s)
    <3>1. CASE ident[s] = NoUser
      <4>1. s \notin sessions
        BY <3>1, RegistryAssumption DEF Registry, RegistryCoherent
      <4> QED
        BY <2>1, <2>13, <3>1, <4>1 DEF EndRead, Registry, TypesButLive, Identified, Registered
    <3>2. CASE ident[s] # NoUser
      BY <2>13, <3>2 DEF EndRead, ReadEnds, Registry, TypesButLive, RegistryCoherent,
                         NothingLeftBehind, IdentityKnown, Registered, Identified
    <3> QED
      BY <3>1, <3>2
  <2>14. CASE FinishRecheck(s) \/ AnnounceDeparture(s)
    BY <2>1, <2>14 DEF FinishRecheck, AnnounceDeparture, Registry, TypesButLive,
                       NothingLeftBehind, Registered, Identified
  <2> QED
    BY <1>3, <2>2, <2>3, <2>4, <2>5, <2>6, <2>7, <2>8, <2>9, <2>10, <2>11, <2>12,
       <2>13, <2>14 DEF Proceed, Environment
<1> QED
  BY <1>1, <1>2, <1>3 DEF Next, Registry
-----------------------------------------------------------------------------
(* The socket counter                                                      *)

\* The connections that were upgraded and have not returned.
Sockets == {s \in Sessions : phase[s] \in Upgraded}

\* A finite set of connections has a size, and a smaller set a smaller one.
LEMMA Sizes ==
    ASSUME NEW S \in SUBSET Sessions, NEW T \in SUBSET S
    PROVE  /\ IsFiniteSet(S) /\ Cardinality(S) \in Nat
           /\ IsFiniteSet(T) /\ Cardinality(T) \in Nat
           /\ Cardinality(T) <= Cardinality(S)
<1>1. IsFiniteSet(S)
  BY FS_Subset, RegistryAssumption
<1>2. IsFiniteSet(T) /\ Cardinality(T) <= Cardinality(S)
  BY <1>1, FS_Subset
<1> QED
  BY <1>1, <1>2, FS_CardinalityType

\* A step that moves one connection between open phases leaves both counts.
LEMMA CountsKept ==
    ASSUME TypesButLive, LiveCounts, SocketsBounded, live' = live, NEW s \in Sessions,
           phase[s] \in Upgraded, phase'[s] \in Upgraded,
           \A t \in Sessions \ {s} : phase'[t] = phase[t]
    PROVE  LiveCounts' /\ SocketsBounded'
<1>1. Requests' = Requests
  BY DEF Requests, Upgraded, Identified, Registered
<1>2. Sockets' = Sockets
  BY DEF Sockets
<1> QED
  BY <1>1, <1>2 DEF LiveCounts, SocketsBounded, Sockets

\* A request that returns is counted out, and was counted in.
LEMMA CountsLeave ==
    ASSUME TypesButLive, LiveCounts, SocketsBounded, NEW s \in Sessions,
           phase[s] \notin {"new", "gone"}, Leave(s)
    PROVE  LiveCounts' /\ SocketsBounded'
<1>1. Requests' = Requests \ {s} /\ s \in Requests
  BY DEF Requests, TypesButLive
<1>2. Sockets' \subseteq Sockets
  BY DEF Sockets, TypesButLive, Upgraded, Identified, Registered
<1>3. Requests \in SUBSET Sessions /\ Sockets \in SUBSET Sessions
  BY DEF Requests, Sockets
<1>4. Cardinality(Requests') = Cardinality(Requests) - 1
  BY <1>1, <1>3, Sizes, FS_RemoveElement
<1>5. Cardinality(Sockets') <= Cardinality(Sockets)
       /\ Cardinality(Sockets') \in Nat /\ Cardinality(Sockets) \in Nat
  BY <1>2, <1>3, Sizes
<1> QED
  BY <1>4, <1>5, RegistryAssumption DEF LiveCounts, SocketsBounded, Sockets

\* A request that arrives is counted in before it is compared with the limit,
\* so those upgraded are among the requests the limit admits.
LEMMA CountsArrive ==
    ASSUME TypesButLive, LiveCounts, SocketsBounded, NEW s \in Sessions, Arrive(s)
    PROVE  LiveCounts' /\ SocketsBounded'
<1>1. Requests' = Requests \cup {s} /\ s \notin Requests
  BY DEF Arrive, Requests, TypesButLive
<1>2. Requests \in SUBSET Sessions /\ Requests' \in SUBSET Sessions
  BY DEF Requests
<1>3. Cardinality(Requests') = Cardinality(Requests) + 1
  BY <1>1, <1>2, Sizes, FS_AddElement
<1>4. LiveCounts'
  BY <1>3 DEF LiveCounts, Arrive
<1>5. CASE Admitted(live')
  <2>1. Sockets' \subseteq Requests'
    BY DEF Sockets, Requests, Upgraded, Identified, Registered
  <2>2. Cardinality(Sockets') <= Cardinality(Requests')
         /\ Cardinality(Sockets') \in Nat /\ Cardinality(Requests') \in Nat
    BY <1>2, <2>1, Sizes
  <2> QED
    BY <1>4, <1>5, <2>2, RegistryAssumption DEF Admitted, LiveCounts, SocketsBounded, Sockets
<1>6. CASE ~Admitted(live')
  <2>1. Sockets' = Sockets
    BY <1>6 DEF Arrive, Sockets, TypesButLive, Upgraded, Identified, Registered
  <2> QED
    BY <1>4, <2>1 DEF SocketsBounded, Sockets
<1> QED
  BY <1>5, <1>6

\* Every step keeps the counter exact and the sockets within the limit.
LEMMA CountsStep ==
    ASSUME TypesButLive, LiveCounts, SocketsBounded, [Next]_vars
    PROVE  LiveCounts' /\ SocketsBounded'
<1>1. CASE UNCHANGED vars
  BY <1>1 DEF vars, LiveCounts, SocketsBounded, Requests
<1>2. ASSUME NEW s \in Sessions, Proceed(s) \/ Environment(s) \/ AuthDeadline(s) \/ CloseGuesser(s)
      PROVE  LiveCounts' /\ SocketsBounded'
  <2>1. CASE Arrive(s)
    BY <2>1, CountsArrive
  <2>2. CASE phase[s] \notin {"new", "gone"} /\ Leave(s)
    BY <2>2, CountsLeave
  <2>3. CASE /\ live' = live /\ phase[s] \in Upgraded /\ phase'[s] \in Upgraded
             /\ \A t \in Sessions \ {s} : phase'[t] = phase[t]
    BY <2>3, CountsKept
  <2> USE DEF TypesButLive, Upgraded, Identified, Registered
  <2>4. CASE Drop(s) \/ AuthDeadline(s) \/ CloseGuesser(s) \/ FailedAttempt(s)
    BY <2>3, <2>4 DEF Drop, AuthDeadline, CloseGuesser, FailedAttempt
  <2>5. ASSUME NEW u \in Users, Authenticate(s, u) PROVE LiveCounts' /\ SocketsBounded'
    BY <2>3, <2>5 DEF Authenticate
  <2>6. ASSUME NEW new \in Statuses, SaveStatus(s, new) PROVE LiveCounts' /\ SocketsBounded'
    BY <2>3, <2>6 DEF SaveStatus
  <2>7. CASE Add(s) \/ AddFull(s) \/ CloseDisplaced(s) \/ BuildReady(s) \/ SnapshotFailure(s)
    BY <2>3, <2>7 DEF Add, AddFull, CloseDisplaced, BuildReady, SnapshotFailure
  <2>8. CASE ClearIdentity(s) \/ AnnounceArrival(s) \/ TellStatus(s) \/ FinishRemove(s)
    BY <2>3, <2>8 DEF ClearIdentity, AnnounceArrival, TellStatus, FinishRemove
  <2>9. CASE Refuse(s) \/ AnnounceDeparture(s)
    BY <2>2, <2>9 DEF Refuse, AnnounceDeparture
  <2>10. CASE EndRead(s)
    BY <2>2, <2>3, <2>10 DEF EndRead, ReadEnds
  <2>11. CASE FinishRecheck(s)
    BY <2>2, <2>3, <2>11 DEF FinishRecheck
  <2> QED
    BY <1>2, <2>1, <2>4, <2>5, <2>6, <2>7, <2>8, <2>9, <2>10, <2>11 DEF Proceed, Environment
<1> QED
  BY <1>1, <1>2 DEF Next
-----------------------------------------------------------------------------
(* Occupancy, and the promise of IdentitySlots                             *)

\* The identities taken are as many as the sessions in the hub.
LEMMA TakenCount ==
    ASSUME Registry
    PROVE  /\ IsFiniteSet(sessions) /\ Cardinality(sessions) \in Nat
           /\ IsFiniteSet(Slots!Taken) /\ Cardinality(Slots!Taken) <= Cardinality(sessions)
<1> USE DEF Registry, TypesButLive, RegistryCoherent, Slots!Taken
<1>1. IsFiniteSet(sessions) /\ Cardinality(sessions) \in Nat
  BY Sizes
<1> DEFINE f == [u \in Slots!Taken |-> byUser[u]]
<1>2. f \in Injection(Slots!Taken, sessions)
  BY DEF Injection, IsInjective
<1> QED
  BY <1>1, <1>2, FS_Injection

\* A session that takes a place finds one, or exchanges it for the one it
\* displaces: the occupancy bound survives every step.
LEMMA CapacityStep ==
    ASSUME Registry, Capacity, [Next]_vars
    PROVE  Capacity'
<1> USE RegistryAssumption DEF Capacity
<1>1. IsFiniteSet(sessions) /\ Cardinality(sessions) \in Nat
  BY TakenCount
<1>2. ASSUME sessions' \subseteq sessions PROVE Capacity'
  BY <1>2, Sizes DEF Registry, TypesButLive
<1>3. ASSUME NEW s \in Sessions, Add(s) PROVE Capacity'
  <2> DEFINE prev == byUser[ident[s]]
  <2>1. sessions' = (sessions \ {prev}) \cup {s} /\ Room(ident[s])
    BY <1>3 DEF Add, Without
  <2>2. s \notin sessions
    BY <1>3, AddKeepsCoherence
  <2>3. CASE prev \in sessions
    <3>1. Cardinality(sessions \ {prev}) = Cardinality(sessions) - 1
          /\ IsFiniteSet(sessions \ {prev})
      BY <1>1, <2>3, FS_RemoveElement
    <3>2. s \notin sessions \ {prev}
      BY <2>2
    <3>3. Cardinality((sessions \ {prev}) \cup {s}) = Cardinality(sessions \ {prev}) + 1
      BY <3>1, <3>2, FS_AddElement
    <3> QED
      BY <1>1, <2>1, <3>1, <3>3
  <2>4. CASE prev \notin sessions
    <3>1. prev = NoSession
      BY <1>3, <2>4 DEF Registry, RegistryCoherent, IdentityKnown, Add, Identified
    <3>2. sessions' = sessions \cup {s} /\ Cardinality(sessions) < MaxUsers
      BY <2>1, <2>4, <3>1 DEF Room
    <3>3. Cardinality(sessions') = Cardinality(sessions) + 1
      BY <1>1, <2>2, <3>2, FS_AddElement
    <3> QED
      BY <1>1, <3>2, <3>3
  <2> QED
    BY <2>3, <2>4
<1>4. ASSUME NEW s \in Sessions, SnapshotFailure(s) \/ FinishRemove(s) PROVE Capacity'
  BY <1>2, <1>4 DEF SnapshotFailure, FinishRemove, Remove
<1>5. ASSUME NEW s \in Sessions,
             Proceed(s) \/ Environment(s) \/ AuthDeadline(s) \/ CloseGuesser(s),
             ~Add(s), ~SnapshotFailure(s), ~FinishRemove(s)
      PROVE  sessions' = sessions
  BY <1>5 DEF Proceed, Environment, Refuse, AddFull, CloseDisplaced, BuildReady,
       ClearIdentity, AnnounceArrival, TellStatus, EndRead, FinishRecheck,
       AnnounceDeparture, Arrive, Drop, FailedAttempt, Authenticate, SaveStatus,
       AuthDeadline, CloseGuesser
<1>6. CASE UNCHANGED vars
  BY <1>2, <1>6 DEF vars
<1> QED
  BY <1>2, <1>3, <1>4, <1>5, <1>6 DEF Next

\* A step of a connection takes a slot, vacates one, or leaves the slots alone.
LEMMA SlotsStep ==
    ASSUME Registry, [Next]_vars
    PROVE  [Slots!Next]_byUser
<1> USE RegistryAssumption DEF Registry, TypesButLive
<1>1. ASSUME NEW s \in Sessions, Add(s) PROVE Slots!Next
  <2>1. ident[s] \in Users
    BY <1>1 DEF Add, IdentityKnown, Identified
  <2>2. Slots!HoldsNothing(s)
    BY <1>1, AddKeepsCoherence DEF RegistryCoherent, Slots!HoldsNothing
  <2>3. byUser[ident[s]] = NoSession => Cardinality(Slots!Taken) < MaxUsers
    <3>1. /\ Cardinality(sessions) \in Nat /\ Cardinality(Slots!Taken) \in Nat
          /\ Cardinality(Slots!Taken) <= Cardinality(sessions)
      BY TakenCount, FS_CardinalityType
    <3> QED
      BY <1>1, <3>1 DEF Add, Room
  <2>4. Slots!Take(s, ident[s])
    <3>1. byUser' = [byUser EXCEPT ![ident[s]] = s]
      BY <1>1 DEF Add
    <3> HIDE DEF Registry, TypesButLive
    <3> QED
      BY <2>2, <2>3, <3>1 DEF Slots!Take, Slots!Cardinality, Cardinality, Slots!IsFiniteSet, IsFiniteSet
  <2> QED
    BY <2>1, <2>4 DEF Slots!Next
<1>2. ASSUME NEW s \in Sessions, Remove(s) PROVE [Slots!Next]_byUser
  <2>1. CASE \E u \in Users : u \in SlotsOf(s)
    <3>1. PICK u \in Users : u = ident[s] /\ byUser[u] = s
      BY <2>1 DEF SlotsOf
    <3>2. Slots!Vacate(u)
      BY <1>2, <3>1 DEF Remove, SlotsOf, Slots!Vacate
    <3> QED
      BY <3>2 DEF Slots!Next
  <2>2. CASE ~ \E u \in Users : u \in SlotsOf(s)
    BY <1>2, <2>2 DEF Remove
  <2> QED
    BY <2>1, <2>2
<1>3. ASSUME NEW s \in Sessions, SnapshotFailure(s) \/ FinishRemove(s) PROVE Remove(s)
  BY <1>3 DEF SnapshotFailure, FinishRemove
<1>4. ASSUME NEW s \in Sessions,
             Proceed(s) \/ Environment(s) \/ AuthDeadline(s) \/ CloseGuesser(s),
             ~Add(s), ~SnapshotFailure(s), ~FinishRemove(s)
      PROVE  byUser' = byUser
  BY <1>4 DEF Proceed, Environment, Refuse, AddFull, CloseDisplaced, BuildReady,
       ClearIdentity, AnnounceArrival, TellStatus, EndRead, FinishRecheck,
       AnnounceDeparture, Arrive, Drop, FailedAttempt, Authenticate, SaveStatus,
       AuthDeadline, CloseGuesser
<1>5. CASE UNCHANGED vars
  BY <1>5 DEF vars
<1> QED
  BY <1>1, <1>2, <1>3, <1>4, <1>5 DEF Next

\* A step takes an identity from whoever holds it only if the holder is the one who
\* steps back, or a newer connection has just proved to be the same person.
LEMMA NewerStep ==
    ASSUME Registry, [Next]_vars, NEW u \in Users, byUser[u] # NoSession, byUser'[u] # byUser[u]
    PROVE  \/ phase[byUser[u]] \in {"building", "leaving"} /\ phase'[byUser[u]] \in {"withdrawing", "parting"}
           \/ byUser'[u] \in Sessions /\ phase[byUser'[u]] = "applied"
<1> USE RegistryAssumption DEF Registry, TypesButLive
<1>1. ASSUME NEW s \in Sessions, Add(s)
      PROVE  byUser'[u] \in Sessions /\ phase[byUser'[u]] = "applied"
  <2>1. byUser' = [byUser EXCEPT ![ident[s]] = s] /\ phase[s] = "applied"
    BY <1>1 DEF Add
  <2>2. byUser'[u] = s
    BY <2>1
  <2> QED
    BY <2>1, <2>2
<1>2. ASSUME NEW s \in Sessions, SnapshotFailure(s) \/ FinishRemove(s)
      PROVE  phase[byUser[u]] \in {"building", "leaving"} /\ phase'[byUser[u]] \in {"withdrawing", "parting"}
  <2>1. Remove(s)
    BY <1>2 DEF SnapshotFailure, FinishRemove
  <2>2. byUser[u] = s
    BY <2>1 DEF Remove, SlotsOf
  <2>3. phase[s] \in {"building", "leaving"} /\ phase'[s] \in {"withdrawing", "parting"}
    BY <1>2 DEF SnapshotFailure, FinishRemove
  <2> QED
    BY <2>2, <2>3
<1>3. ASSUME NEW s \in Sessions,
             Proceed(s) \/ Environment(s) \/ AuthDeadline(s) \/ CloseGuesser(s),
             ~Add(s), ~SnapshotFailure(s), ~FinishRemove(s)
      PROVE  byUser' = byUser
  BY <1>3 DEF Proceed, Environment, Refuse, AddFull, CloseDisplaced, BuildReady,
       ClearIdentity, AnnounceArrival, TellStatus, EndRead, FinishRecheck,
       AnnounceDeparture, Arrive, Drop, FailedAttempt, Authenticate, SaveStatus,
       AuthDeadline, CloseGuesser
<1>4. CASE UNCHANGED vars
  BY <1>4 DEF vars
<1> QED
  BY <1>1, <1>2, <1>3, <1>4 DEF Next

-----------------------------------------------------------------------------
(* The theorems                                                            *)

\* The inductive invariant holds of every behaviour of the registry.
THEOREM RegistryInvariant == Spec => [](Registry /\ LiveCounts /\ SocketsBounded /\ Capacity)
<1>1. Init => Registry /\ LiveCounts /\ SocketsBounded /\ Capacity
  <2> SUFFICES ASSUME Init PROVE Registry /\ LiveCounts /\ SocketsBounded /\ Capacity
    OBVIOUS
  <2>1. Registry
    BY RegistryAssumption
       DEF Init, Registry, TypesButLive, RegistryCoherent, NothingLeftBehind, IdentityKnown,
           Phases, Identified, Registered
  <2>2. Requests = {} /\ Sockets = {} /\ sessions = {}
    BY DEF Init, Requests, Sockets, Upgraded, Identified, Registered
  <2> QED
    BY <2>1, <2>2, FS_EmptySet, RegistryAssumption
       DEF Init, LiveCounts, SocketsBounded, Sockets, Capacity
<1>2. Registry /\ LiveCounts /\ SocketsBounded /\ Capacity /\ [Next]_vars
        => (Registry /\ LiveCounts /\ SocketsBounded /\ Capacity)'
  BY RegistryStep, CountsStep, CapacityStep DEF Registry
<1> QED
  BY <1>1, <1>2, PTL DEF Spec

\* Every variable keeps its type; the socket counter never goes negative, for
\* it counts the requests being served.  (newSession, Server.live)
THEOREM RegistryTypes == Spec => []TypeOK
<1>1. Registry /\ LiveCounts => TypeOK
  BY Sizes DEF Registry, LiveCounts, TypesButLive, TypeOK, Requests
<1> QED
  BY <1>1, RegistryInvariant, PTL

\* The hub's two maps always describe one relation between identities and
\* sessions.  (Hub.Add, Hub.Remove)
THEOREM RegistryIsCoherent == Spec => []RegistryCoherent
BY RegistryInvariant, PTL DEF Registry

\* The hub never holds more identities than max_users.  (Hub.Add)
THEOREM CapacityHolds == Spec => []Capacity
BY RegistryInvariant, PTL

\* The sockets upgraded never exceed max_users and the headroom.
\* (handleWebSocket)
THEOREM SocketsAreBounded == Spec => []SocketsBounded
BY RegistryInvariant, PTL

\* No connection that is nobody, or that has removed itself, is left in the
\* hub.  (finishAuth, finishSession)
THEOREM NothingIsLeftBehind == Spec => []NothingLeftBehind
BY RegistryInvariant, PTL DEF Registry

\* The registry implements IdentitySlots: one holder per identity, one identity
\* per session, places bounded, displacement in one step.  (Hub.Add, Hub.Remove)
THEOREM RegistryImplementsSlots == Spec => SlotsSpec
<1>1. Init => Slots!Init
  BY DEF Init, Slots!Init
<1>2. Registry /\ [Next]_vars => [Slots!Next]_byUser
  BY SlotsStep
<1> QED
  BY <1>1, <1>2, RegistryInvariant, PTL DEF Spec, SlotsSpec, Slots!Spec
\* Tearing down an older connection never evicts a newer one: an identity is taken from the
\* session that holds it by that session itself, or by the one that displaces it.
\* (Hub.Remove's second condition)
THEOREM NewerOnesSurvive == Spec => NewerSurvives
<1>1. Registry /\ [Next]_vars =>
        [\A u \in Users : byUser[u] # NoSession /\ byUser'[u] # byUser[u] =>
            \/ phase[byUser[u]] \in {"building", "leaving"}
               /\ phase'[byUser[u]] \in {"withdrawing", "parting"}
            \/ byUser'[u] \in Sessions /\ phase[byUser'[u]] = "applied"]_vars
  BY NewerStep
<1> QED
  BY <1>1, RegistryInvariant, PTL DEF Spec, NewerSurvives
==============================================================================
