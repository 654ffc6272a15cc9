--------------------------- MODULE SessionRegistry ---------------------------
(***************************************************************************)
(* The life of a WebSocket connection and of its place in the hub: the     *)
(* socket count, authentication attempts and their deadline, Hub.Add and   *)
(* Hub.Remove, displacement of an older connection of the same identity,   *)
(* the arrival and departure frames, and the status changes that decide    *)
(* who is told.  One step is one stretch between two lock acquisitions,    *)
(* store calls or frames, so that every interleaving of the connections'   *)
(* read loops and of whoever closes them is a behaviour.                   *)
(*                                                                         *)
(* Presence is what one more member, connected all along and able to see   *)
(* everybody, has been told: shown[u].                                     *)
(***************************************************************************)
EXTENDS Integers, FiniteSets

CONSTANTS Users,            \* identities that authenticate
          NoUser,           \* the identity of an unauthenticated connection
          Sessions,         \* connections, each used once
          NoSession,        \* absence of a session
          MaxUsers,         \* cfg.Server.MaxUsers
          PendingHeadroom,  \* pendingHeadroom: sockets allowed beyond MaxUsers
          MaxAuthAttempts,  \* maxAuthAttempts
          SnapshotFails,    \* may buildReady return an error?
          Statuses          \* what a user may set, as HidesPresence reads it

ASSUME RegistryAssumption ==
    /\ IsFiniteSet(Users)
    /\ IsFiniteSet(Sessions)
    /\ NoUser \notin Users
    /\ NoSession \notin Sessions
    /\ MaxUsers \in Nat \ {0}
    /\ PendingHeadroom \in Nat
    /\ MaxAuthAttempts \in Nat \ {0}
    /\ SnapshotFails \in BOOLEAN
    /\ "visible" \in Statuses /\ Statuses \subseteq {"visible", "hidden"}

VARIABLES
    phase,      \* where the goroutine that runs the connection is
    live,       \* Server.live
    closed,     \* Session.closed has been closed
    armed,      \* the one-shot timer of watchAuthDeadline has yet to fire
    attempts,   \* Session.authAttempt
    ident,      \* Session.user.ID, NoUser while authed is false
    row,        \* Session.user.Status, the session's copy of the row
    saving,     \* the status a user.update in progress has stored
    sessions,   \* Hub.sessions
    byUser,     \* Hub.byUser
    displaced,  \* what Hub.Add handed back, until it is closed
    status,     \* users.status in the store
    shown,      \* whether the outside observer believes the user is online
    overlapped  \* history: some identity reconnected before its old connection
                \* was gone

connVars     == <<closed, armed, attempts, live>>
identityVars == <<ident, row>>
hubVars      == <<sessions, byUser, displaced>>
presenceVars == <<saving, status, shown, overlapped>>
vars == <<phase, connVars, identityVars, hubVars, presenceVars>>

\* Where a connection can be, in the order it gets there; a registered one is
\* in the hub unless a newer connection has displaced it.
Registered == {"added", "building", "arriving", "live", "saving", "leaving"}
Identified == {"applied", "withdrawing", "parting", "departing"} \cup Registered
Upgraded   == {"open"} \cup Identified
Phases     == {"new", "refused", "gone"} \cup Upgraded

TypeOK ==
    /\ phase \in [Sessions -> Phases]
    /\ live \in Nat
    /\ closed \in [Sessions -> BOOLEAN]
    /\ armed \in [Sessions -> BOOLEAN]
    /\ attempts \in [Sessions -> Nat]
    /\ ident \in [Sessions -> Users \cup {NoUser}]
    /\ row \in [Sessions -> Statuses]
    /\ saving \in [Sessions -> Statuses]
    /\ sessions \in SUBSET Sessions
    /\ byUser \in [Users -> Sessions \cup {NoSession}]
    /\ displaced \in [Sessions -> Sessions \cup {NoSession}]
    /\ status \in [Users -> Statuses]
    /\ shown \in [Users -> BOOLEAN]
    /\ overlapped \in BOOLEAN

Init ==
    /\ phase = [s \in Sessions |-> "new"]
    /\ live = 0
    /\ closed = [s \in Sessions |-> FALSE]
    /\ armed = [s \in Sessions |-> FALSE]
    /\ attempts = [s \in Sessions |-> 0]
    /\ ident = [s \in Sessions |-> NoUser]
    /\ row = [s \in Sessions |-> "visible"]
    /\ saving = [s \in Sessions |-> "visible"]
    /\ sessions = {}
    /\ byUser = [u \in Users |-> NoSession]
    /\ displaced = [s \in Sessions |-> NoSession]
    /\ status \in [Users -> Statuses]
    /\ shown = [u \in Users |-> FALSE]
    /\ overlapped = FALSE

Goto(s, p) == phase' = [phase EXCEPT ![s] = p]

-----------------------------------------------------------------------------
(* The socket                                                              *)

\* Whether the n-th open connection is upgraded.
Admitted(n) == n <= MaxUsers + PendingHeadroom

LeaveTwice(s) == Goto(s, "gone") /\ live' = live - 2          \* wrong

\* handleWebSocket returns, and its deferred decrement runs.
Leave(s) == Goto(s, "gone") /\ live' = live - 1

\* handleWebSocket: counted first, then refused above the limit or upgraded.
Arrive(s) ==
    /\ phase[s] = "new"
    /\ live' = live + 1
    /\ Goto(s, IF Admitted(live') THEN "open" ELSE "refused")
    /\ armed' = [armed EXCEPT ![s] = Admitted(live')]
    /\ UNCHANGED <<closed, attempts, identityVars, hubVars, presenceVars>>

\* A request over the limit is answered and returns.
Refuse(s) ==
    /\ phase[s] = "refused"
    /\ Leave(s)
    /\ UNCHANGED <<closed, armed, attempts, identityVars, hubVars, presenceVars>>

\* Session.Close from anywhere but this connection's own code paths below: the
\* peer hangs up, a ping goes unanswered, the outbound queue overflows, a
\* moderator kicks or bans, the user logs out.
Drop(s) ==
    /\ phase[s] \in Upgraded
    /\ ~closed[s]
    /\ closed' = [closed EXCEPT ![s] = TRUE]
    /\ UNCHANGED <<phase, armed, attempts, live, identityVars, hubVars, presenceVars>>

DueNever(s) == FALSE /\ armed[s]                              \* wrong

\* Whether the deadline finds the connection without an identity.
Due(s) == ident[s] = NoUser

\* watchAuthDeadline: the timer fires once, and closes the connection if it
\* holds no identity at that moment.
AuthDeadline(s) ==
    /\ armed[s]
    /\ phase[s] \in Upgraded
    /\ ~closed[s]
    /\ armed' = [armed EXCEPT ![s] = FALSE]
    /\ closed' = [closed EXCEPT ![s] = Due(s)]
    /\ UNCHANGED <<phase, attempts, live, identityVars, hubVars, presenceVars>>

-----------------------------------------------------------------------------
(* Authentication                                                          *)

\* beginAuthAttempt counts every attempt; the count stops mattering once it is
\* over the limit, so it stays at MaxAuthAttempts + 1.
Counted(s) == IF attempts[s] > MaxAuthAttempts THEN attempts[s] ELSE attempts[s] + 1

\* An attempt that fails on its credentials, on a ban, or for being one too many.
FailedAttempt(s) ==
    /\ phase[s] = "open"
    /\ ~closed[s]
    /\ attempts' = [attempts EXCEPT ![s] = Counted(s)]
    /\ UNCHANGED <<phase, closed, armed, live, identityVars, hubVars, presenceVars>>

\* The goroutine beginAuthAttempt starts when the attempts are used up.
CloseGuesser(s) ==
    /\ phase[s] \in Upgraded
    /\ attempts[s] > MaxAuthAttempts
    /\ ~closed[s]
    /\ closed' = [closed EXCEPT ![s] = TRUE]
    /\ UNCHANGED <<phase, armed, attempts, live, identityVars, hubVars, presenceVars>>

\* Every authentication up to and including applyIdentity: the attempt is
\* counted, the row is loaded, and the session becomes that identity.
Authenticate(s, u) ==
    /\ phase[s] = "open"
    /\ attempts[s] < MaxAuthAttempts
    /\ attempts' = [attempts EXCEPT ![s] = Counted(s)]
    /\ ident' = [ident EXCEPT ![s] = u]
    /\ row' = [row EXCEPT ![s] = status[u]]
    /\ Goto(s, "applied")
    /\ overlapped' = (overlapped \/ \E t \in Sessions : ident[t] = u /\ phase[t] # "gone")
    /\ UNCHANGED <<closed, armed, live, hubVars, saving, status, shown>>

-----------------------------------------------------------------------------
(* Hub.Add and what follows it                                             *)

RoomUnchecked(u) == u \in Users                               \* wrong

\* Reconnecting takes no new place; anybody else needs one to be free.
Room(u) == byUser[u] # NoSession \/ Cardinality(sessions) < MaxUsers

\* Hub.sessions once the displaced session, if there is one, is deleted.
Without(prev) == sessions \ {prev}

\* Hub.Add finds room, or a session of the same identity to take over from.
Add(s) ==
    /\ phase[s] = "applied"
    /\ LET u == ident[s]
           prev == byUser[u] IN
       /\ Room(u)
       /\ Goto(s, "added")
       /\ sessions' = Without(prev) \cup {s}
       /\ byUser' = [byUser EXCEPT ![u] = s]
       /\ displaced' = [displaced EXCEPT ![s] = prev]
    /\ UNCHANGED <<connVars, identityVars, presenceVars>>

\* Hub.Add finds the server full; the session goes back to being nobody.
AddFull(s) ==
    /\ phase[s] = "applied"
    /\ ~Room(ident[s])
    /\ Goto(s, "withdrawing")
    /\ UNCHANGED <<connVars, identityVars, hubVars, presenceVars>>

\* What is closed once the displaced session has been.
CloseOlder(s) == [t \in Sessions |-> closed[t] \/ t = displaced[s]]

\* finishAuth closes the session it displaced, if there was one.
CloseDisplaced(s) ==
    /\ phase[s] = "added"
    /\ Goto(s, "building")
    /\ closed' = CloseOlder(s)
    /\ displaced' = [displaced EXCEPT ![s] = NoSession]
    /\ UNCHANGED <<armed, attempts, live, identityVars, sessions, byUser, presenceVars>>

\* buildReady hands back the snapshot.
BuildReady(s) ==
    /\ phase[s] = "building"
    /\ Goto(s, "arriving")
    /\ UNCHANGED <<connVars, identityVars, hubVars, presenceVars>>

SlotsOfUser(s) == {u \in Users : u = ident[s]}                \* wrong

\* The slots a session may empty: its identity's, unless a newer session has it.
SlotsOf(s) == {u \in Users : u = ident[s] /\ byUser[u] = s}

\* Hub.Remove.
Remove(s) ==
    /\ sessions' = sessions \ {s}
    /\ byUser' = [u \in Users |-> IF u \in SlotsOf(s) THEN NoSession ELSE byUser[u]]
    /\ UNCHANGED displaced

\* (wrong) the error path forgets that the session is in the hub.
SnapshotFailureForgets(s) ==
    /\ SnapshotFails
    /\ phase[s] = "building"
    /\ Goto(s, "withdrawing")
    /\ UNCHANGED <<connVars, identityVars, hubVars, presenceVars>>

\* buildReady fails: the session comes back out of the hub.
SnapshotFailure(s) ==
    /\ SnapshotFails
    /\ phase[s] = "building"
    /\ Remove(s)
    /\ Goto(s, "withdrawing")
    /\ UNCHANGED <<connVars, identityVars, presenceVars>>

\* clearIdentity: the connection is nobody's again and may try once more.
ClearIdentity(s) ==
    /\ phase[s] = "withdrawing"
    /\ ident' = [ident EXCEPT ![s] = NoUser]
    /\ Goto(s, "open")
    /\ UNCHANGED <<connVars, row, hubVars, presenceVars>>

\* Whether others are told of the arrival.
ArrivalSeen(s) == row[s] = "visible"

\* The last part of finishAuth: a visible arrival is announced.
AnnounceArrival(s) ==
    /\ phase[s] = "arriving"
    /\ shown' = [shown EXCEPT ![ident[s]] = @ \/ ArrivalSeen(s)]
    /\ Goto(s, "live")
    /\ UNCHANGED <<connVars, identityVars, hubVars, saving, status, overlapped>>

-----------------------------------------------------------------------------
(* Status changes                                                          *)

\* handleUserUpdate stores the new status.
SaveStatus(s, new) ==
    /\ phase[s] = "live"
    /\ status' = [status EXCEPT ![ident[s]] = new]
    /\ saving' = [saving EXCEPT ![s] = new]
    /\ Goto(s, "saving")
    /\ UNCHANGED <<connVars, identityVars, hubVars, shown, overlapped>>

\* What BroadcastUserPresence leaves an onlooker believing: nothing is sent for
\* a user who stays hidden, a departure for one who hides, an update otherwise.
Presence(was, now, before) ==
    IF now = "hidden" /\ was = "hidden" THEN before ELSE now = "visible"

ShownBeforeLate(s, target) == saving[s]                       \* wrong

\* The status others last saw, read before the session's row is replaced.
ShownBefore(s, target) == row[target]

\* handleUserUpdate gives the row to the session that now holds the identity
\* and announces the change; with nobody connected it announces the offline
\* entry of an absent member.
TellStatus(s) ==
    /\ phase[s] = "saving"
    /\ LET u == ident[s]
           target == byUser[u] IN
       IF target = NoSession
       THEN /\ shown' = [shown EXCEPT ![u] = FALSE]
            /\ UNCHANGED row
       ELSE /\ row' = [row EXCEPT ![target] = saving[s]]
            /\ shown' = [shown EXCEPT ![u] = Presence(ShownBefore(s, target), saving[s], @)]
    /\ Goto(s, "live")
    /\ UNCHANGED <<connVars, ident, hubVars, saving, status, overlapped>>

-----------------------------------------------------------------------------
(* The end of a connection                                                 *)

ReadEndsLate(s) == closed[s] /\ phase[s] = "live"             \* wrong

\* Nothing is being handled on a closed connection: the next read fails.
ReadEnds(s) == closed[s] /\ phase[s] \in {"open", "live"}

\* readPump returns once the connection is closed and no handler is running;
\* finishSession has nothing to undo for a connection that is nobody.
EndRead(s) ==
    /\ ReadEnds(s)
    /\ IF ident[s] = NoUser
       THEN Leave(s)
       ELSE Goto(s, "leaving") /\ UNCHANGED live
    /\ UNCHANGED <<closed, armed, attempts, identityVars, hubVars, presenceVars>>

\* finishSession, Hub.Remove.  The voice teardown before it is VoiceSeats'.
FinishRemove(s) ==
    /\ phase[s] = "leaving"
    /\ Remove(s)
    /\ Goto(s, "parting")
    /\ UNCHANGED <<connVars, identityVars, presenceVars>>

\* Whether a departure concerns nobody: a newer session has the identity, or
\* nobody was told of this one.
Unannounced(s) == byUser[ident[s]] # NoSession \/ row[s] = "hidden"

\* finishSession, the second look.
FinishRecheck(s) ==
    /\ phase[s] = "parting"
    /\ IF Unannounced(s)
       THEN Leave(s)
       ELSE Goto(s, "departing") /\ UNCHANGED live
    /\ UNCHANGED <<closed, armed, attempts, identityVars, hubVars, presenceVars>>

\* finishSession broadcasts the departure.
AnnounceDeparture(s) ==
    /\ phase[s] = "departing"
    /\ shown' = [shown EXCEPT ![ident[s]] = FALSE]
    /\ Leave(s)
    /\ UNCHANGED <<closed, armed, attempts, identityVars, hubVars, saving, status, overlapped>>

-----------------------------------------------------------------------------
\* What the goroutine that runs the connection does of its own accord.
Proceed(s) ==
    \/ Refuse(s) \/ Add(s) \/ AddFull(s) \/ CloseDisplaced(s)
    \/ BuildReady(s) \/ SnapshotFailure(s) \/ ClearIdentity(s)
    \/ AnnounceArrival(s) \/ TellStatus(s)
    \/ EndRead(s) \/ FinishRemove(s) \/ FinishRecheck(s) \/ AnnounceDeparture(s)

\* What a peer or a moderator decides.
Environment(s) ==
    \/ Arrive(s) \/ Drop(s) \/ FailedAttempt(s)
    \/ \E u \in Users : Authenticate(s, u)
    \/ \E new \in Statuses : SaveStatus(s, new)

Next == \E s \in Sessions :
    Proceed(s) \/ Environment(s) \/ AuthDeadline(s) \/ CloseGuesser(s)

Spec == Init /\ [][Next]_vars

\* A running goroutine is scheduled and a timer that is due fires; nobody is
\* obliged to connect, to authenticate, to speak or to hang up.  Once closed, a
\* connection delivers no frame but the one already read, so readPump cannot go
\* on handling requests instead of returning: hence SF for EndRead.
Fairness == \A s \in Sessions :
    /\ WF_vars(Proceed(s)) /\ WF_vars(AuthDeadline(s)) /\ WF_vars(CloseGuesser(s))
    /\ SF_vars(EndRead(s))

FairSpec == Spec /\ Fairness

-----------------------------------------------------------------------------
(* Safety                                                                  *)

\* The two maps of the hub describe one relation: a registered session is the
\* one its identity leads to, and whoever an identity leads to is registered
\* under it.  (Hub.Add and Hub.Remove update both under one lock.)
RegistryCoherent ==
    /\ \A s \in sessions : ident[s] \in Users /\ byUser[ident[s]] = s
    /\ \A u \in Users : byUser[u] # NoSession =>
           byUser[u] \in sessions /\ ident[byUser[u]] = u

\* However many authentications land at once, the server never holds more
\* identities than max_users.  (The check is inside Hub.Add's lock.)
Capacity == Cardinality(sessions) <= MaxUsers

\* The sockets upgraded at any time fit max_users and the headroom, although
\* requests that will be refused are counted too.  (handleWebSocket)
SocketsBounded ==
    Cardinality({s \in Sessions : phase[s] \in Upgraded}) <= MaxUsers + PendingHeadroom

\* Nothing is left in the hub by a connection whose goroutine has moved on: not
\* by one that is nobody, nor by one that removed itself.  (finishAuth's error
\* path and finishSession both take the entry out.)
NothingLeftBehind ==
    \A s \in sessions : phase[s] \in Registered

\* An identity is taken from the session that holds it only by that session
\* itself or by the arrival that displaces it: tearing down an older connection
\* never evicts a newer one.  (Hub.Remove's second condition.)
NewerSurvives ==
    [][\A u \in Users : byUser[u] # NoSession /\ byUser'[u] # byUser[u] =>
           \/ phase[byUser[u]] \in {"building", "leaving"}
              /\ phase'[byUser[u]] \in {"withdrawing", "parting"}
           \/ byUser'[u] \in Sessions /\ phase[byUser'[u]] = "applied"]_vars

\* No connection is between two steps of its own.
Quiet == \A s \in Sessions :
    \/ phase[s] \in {"new", "open", "gone"}
    \/ phase[s] = "live" /\ ~closed[s]

\* When every connection is at rest, onlookers believe exactly the users who
\* are connected and not hiding to be online.  (finishAuth, finishSession and
\* BroadcastUserPresence together; as long as no reconnection overlapped.)
PresenceSettles ==
    Quiet /\ ~overlapped => \A u \in Users :
        shown[u] <=> byUser[u] # NoSession /\ status[u] = "visible"

\* Onlookers are never left believing that somebody who has gone is online.
NobodyLingers ==
    Quiet => \A u \in Users : byUser[u] = NoSession => ~shown[u]

-----------------------------------------------------------------------------
(* Liveness                                                                *)

\* A connection that was closed, by whoever, comes out of the hub and ends.
ClosedEnds == \A s \in Sessions : closed[s] ~> phase[s] = "gone"

\* No connection stays for ever without an identity: it authenticates, or the
\* deadline ends it.  (watchAuthDeadline)
DeadlineCovers == \A s \in Sessions : []<>(phase[s] # "open" \/ ident[s] # NoUser)

-----------------------------------------------------------------------------
\* The hub keeps the promise IdentitySlots states.
Slots == INSTANCE IdentitySlots WITH holder <- byUser

SlotsSpec == Slots!Spec
==============================================================================
