------------------------------ MODULE RoleCaches ------------------------------
(***************************************************************************)
(* Who may do what.  The roles, the grants and the owner are rows of the   *)
(* store; the hub keeps a copy of the role table and of the owner, and     *)
(* every session a copy of what its own roles add up to.  Requests are     *)
(* checked against the copies, write to the store and then bring the       *)
(* copies up to date.                                                      *)
(*                                                                         *)
(* The read loop of a connection handles one request at a time.  A step is *)
(* one statement of the store or one acquisition of a lock with the        *)
(* reading that leads up to it, so the requests of two connections         *)
(* interleave between a check and its write, between the statement that    *)
(* reads the table and the lock that stores it, and inside a refresh.      *)
(* Every identity connects once: SessionRegistry has the reconnections.    *)
(* A behaviour picks one of Plans: who is there, what the store holds to   *)
(* begin with and what is asked for.                                       *)
(***************************************************************************)
EXTENDS Integers, FiniteSets, FiniteSetsExt, Functions

CONSTANTS Users, NoUser,
          LastRole,         \* bound: the last id a role may get
          Everyone, Member, Admin,   \* the managed roles
          Registered,       \* who has claimed an account
          Bits,             \* permissions.All
          ManageRoles, Administrator,
          OwnerRank,        \* math.MaxInt
          Same,             \* a field the request leaves out
          Plans             \* what a behaviour may be about

\* The ids, as AUTOINCREMENT numbers them.
Roles == 1..LastRole

Row == [position : Nat, mask : SUBSET Bits]

\* A role table: the rows of the roles that exist.
IsTable(t) == DOMAIN t \subseteq Roles /\ \A r \in DOMAIN t : t[r] \in Row

ASSUME RoleAssumption ==
    /\ IsFiniteSet(Users) /\ NoUser \notin Users /\ Registered \subseteq Users
    /\ LastRole \in Nat /\ {Everyone, Member, Admin} \subseteq Roles
    /\ Everyone # Member /\ Everyone # Admin /\ Member # Admin
    /\ {ManageRoles, Administrator} \subseteq Bits
    /\ OwnerRank \in Nat /\ LastRole <= OwnerRank

\* A plan: the users of a behaviour, the roles, the grants, the owner and the
\* owner token the store starts with, who is connected, the masks and positions
\* requests ask for, and three bounds: the last id, the requests and logins of a
\* behaviour, and how many are handled at the same time.
ASSUME PlansFit ==
    \A p \in Plans :
        /\ p.users \subseteq Users /\ p.hub \subseteq p.users
        /\ IsTable(p.table) /\ {Everyone, Member, Admin} \subseteq DOMAIN p.table
        /\ \A r \in DOMAIN p.table : p.table[r].position = 0 <=> r = Everyone
        /\ p.grants \subseteq Users \X DOMAIN p.table
        /\ p.owner \in Users \cup {NoUser} /\ p.token \in BOOLEAN
        /\ p.masks \subseteq SUBSET Bits /\ p.positions \subseteq Nat
        /\ p.ids \in Nat /\ p.ids <= LastRole /\ \A r \in DOMAIN p.table : r <= p.ids
        /\ p.requests \in Nat /\ p.inFlight \in Nat \ {0}

VARIABLES
    plan,           \* what this behaviour is about
    table,          \* the rows of roles
    born,           \* the ids ever given to a role
    grants,         \* the rows of user_roles
    owner,          \* the owner the store records
    token,          \* whether the store holds the hash of an owner token
    cachedRoles,    \* Hub.roles
    cachedOwner,    \* Hub.ownerID
    held, base,     \* Session.roleIDs and Session.base
    hub,            \* the users whose session is registered
    pc,             \* the step the request of each connection takes next
    req,            \* what that request has read and has still to do
    alone,          \* observer: the request no other one has overlapped yet
    requests        \* how many have begun

rowVars   == <<table, born, grants>>
ownerVars == <<owner, token>>
cacheVars == <<cachedRoles, cachedOwner>>
copyVars  == <<held, base>>
vars == <<rowVars, ownerVars, cacheVars, copyVars, hub, pc, req, alone, requests, plan>>

Steps == {"out", "idle", "write", "reload", "install", "burn", "reown", "instate",
          "sweep", "fetch", "resolve", "apply", "join"}

NoRequest == [op |-> "none", role |-> Everyone, row |-> [position |-> 0, mask |-> {}],
              places |-> <<>>, whom |-> NoUser, resync |-> FALSE,
              seen |-> <<>>, todo |-> {}, roles |-> {}, sum |-> {}]

TypeOK ==
    /\ IsTable(table) /\ IsTable(cachedRoles)
    /\ DOMAIN table \subseteq born /\ born \subseteq Roles
    /\ grants \subseteq Users \X DOMAIN table
    /\ owner \in Users \cup {NoUser} /\ cachedOwner \in Users \cup {NoUser}
    /\ token \in BOOLEAN
    /\ held \in [Users -> SUBSET Roles] /\ base \in [Users -> SUBSET Bits]
    /\ hub \subseteq Users
    /\ pc \in [Users -> Steps]
    /\ \A u \in Users :
        /\ req[u].role \in Roles /\ req[u].row \in Row
        /\ req[u].whom \in Users \cup {NoUser} /\ req[u].todo \subseteq Users
        /\ req[u].roles \subseteq Roles /\ req[u].sum \subseteq Bits
    /\ requests \in 0..plan.requests

(* --- What roles add up to ------------------------------------------------ *)

Has(mask, want) == Administrator \in mask \/ want \subseteq mask

Resolve(masks) == LET sum == UNION masks IN IF Administrator \in sum THEN Bits ELSE sum

\* The roles a user holds without a grant.
Implicit(u) == {Everyone} \cup (IF u \in Registered THEN {Member} ELSE {})

Granted(u) == {r \in Roles : <<u, r>> \in grants}

\* The mask of a user with these roles, by this table and this owner.
MaskBy(t, own, u, roles) ==
    IF own = u THEN Bits ELSE Resolve({t[r].mask : r \in roles \cap DOMAIN t})

\* Their authority over others.
RankBy(t, own, u, roles) ==
    IF own = u THEN OwnerRank ELSE Max({0} \cup {t[r].position : r \in roles \cap DOMAIN t})

PermissionsFor(u, roles) == MaskBy(cachedRoles, cachedOwner, u, roles)
RankOf(u, roles) == RankBy(cachedRoles, cachedOwner, u, roles)

Init ==
    /\ plan \in Plans
    /\ table = plan.table /\ born = DOMAIN plan.table /\ grants = plan.grants
    /\ owner = plan.owner /\ token = plan.token
    /\ cachedRoles = plan.table /\ cachedOwner = plan.owner
    /\ hub = plan.hub
    /\ held = [u \in Users |-> IF u \in hub THEN Implicit(u) \cup Granted(u) ELSE {}]
    /\ base = [u \in Users |-> IF u \in hub THEN PermissionsFor(u, held[u]) ELSE {}]
    /\ pc = [u \in Users |-> IF u \in hub THEN "idle" ELSE "out"]
    /\ req = [u \in Users |-> NoRequest]
    /\ alone = {} /\ requests = 0

(* --- Requests ------------------------------------------------------------ *)

Busy == {u \in Users : pc[u] \notin {"out", "idle"}}

\* The request of u goes on to a step, with what it carries along.
Goto(u, step, carried) ==
    /\ pc' = [pc EXCEPT ![u] = step]
    /\ req' = [req EXCEPT ![u] = carried]

Finish(u) == Goto(u, "idle", NoRequest)

\* Bounds on the requests of a behaviour and on those handled together.
RoomForAnother == requests < plan.requests /\ Cardinality(Busy) < plan.inFlight

\* A frame is read from the connection of u.
Begin(u) ==
    /\ requests' = requests + 1
    /\ alone' = IF Busy = {} THEN {u} ELSE {}

\* A request that may write roles passes its checks: nothing is written yet.
Checked(u, request) ==
    /\ Begin(u)
    /\ Goto(u, "write", request)
    /\ UNCHANGED <<rowVars, ownerVars, cacheVars, copyVars, hub>>

MayManage(u) == Has(base[u], {ManageRoles})

\* Whether a role sits strictly below u.
BelowRank(u, r) == cachedRoles[r].position < RankOf(u, held[u])

HighestPosition(roles) == Max({0} \cup {cachedRoles[r].position : r \in roles})

\* A new role lands on top of the stack, or right below its author.
LandingPosition(u) ==
    Min({HighestPosition(DOMAIN cachedRoles \ {Admin}) + 1, RankOf(u, held[u]) - 1})

\* Bound: ids are left for every role that is being created.
IdsLeft == Max(born) + Cardinality({v \in Users : req[v].op = "create"}) < plan.ids

CreateRole(u, mask) ==
    /\ MayManage(u) /\ Has(base[u], mask) /\ IdsLeft
    /\ RankOf(u, held[u]) > 1
    /\ Checked(u, [NoRequest EXCEPT !.op = "create",
                                    !.row = [position |-> LandingPosition(u), mask |-> mask]])

\* The bits two masks differ in.
Flipped(m, n) == (m \ n) \cup (n \ m)

MayFlip(u, from, to) == Has(base[u], Flipped(from, to))

MayPlace(u, r, position) ==
    /\ r # Everyone /\ position >= 1
    /\ position <= HighestPosition(DOMAIN cachedRoles)
    /\ position < RankOf(u, held[u])

\* wrong: only a change of position is taken to matter
ChangesPosition(row, mask, position) == position # Same

\* Changes that alter what somebody may do: the sessions have to hear of them.
ChangesPermissions(row, mask, position) ==
    position # Same \/ (mask # Same /\ mask # row.mask)

\* A name, a colour or a hoist is changed with both fields left out.
UpdateRole(u, r, mask, position) ==
    /\ MayManage(u) /\ r \in DOMAIN cachedRoles /\ BelowRank(u, r)
    /\ LET row == cachedRoles[r] IN
        /\ mask # Same => MayFlip(u, row.mask, mask)
        /\ position # Same => MayPlace(u, r, position)
        /\ Checked(u, [NoRequest EXCEPT
               !.op = "update", !.role = r,
               !.row = [position |-> IF position = Same THEN row.position ELSE position,
                        mask |-> IF mask = Same THEN row.mask ELSE mask],
               !.resync = ChangesPermissions(row, mask, position)])

\* The stack a reorder is about, and where a role sits in it from the bottom.
Stack == DOMAIN cachedRoles \ {Everyone}
PlaceOf(r) == 1 + Cardinality({x \in Stack :
    \/ cachedRoles[x].position < cachedRoles[r].position
    \/ cachedRoles[x].position = cachedRoles[r].position /\ x < r})

\* wrong: everybody may order the whole stack
CeilingOnTop(u) == Cardinality(Stack)

\* The last place in the stack that is u's to move, from or to.
CeilingPlace(u) ==
    IF cachedOwner = u THEN Cardinality(Stack)
    ELSE Cardinality({r \in Stack : BelowRank(u, r)})

\* The order that exchanges two roles, or restates the stack as it is.
Exchanged(a, b) == [r \in Stack |-> IF r = a THEN PlaceOf(b) ELSE IF r = b THEN PlaceOf(a) ELSE PlaceOf(r)]

\* Bound: one request exchanges at most two roles, so that several make any order.
ReorderRoles(u, a, b) ==
    /\ MayManage(u) /\ a \in Stack /\ b \in Stack /\ a <= b
    /\ a # b => PlaceOf(a) <= CeilingPlace(u) /\ PlaceOf(b) <= CeilingPlace(u)
    /\ Checked(u, [NoRequest EXCEPT !.op = "reorder", !.places = Exchanged(a, b), !.resync = TRUE])

DeleteRole(u, r) ==
    /\ MayManage(u) /\ r \in DOMAIN cachedRoles /\ BelowRank(u, r)
    /\ r \notin {Everyone, Member, Admin}
    /\ Checked(u, [NoRequest EXCEPT !.op = "delete", !.role = r, !.resync = TRUE])

\* The hierarchy between users; what an absent one holds is read from the store.
OutranksUser(u, whom) ==
    \/ u = whom
    \/ RankOf(u, held[u]) >
       RankOf(whom, IF whom \in hub THEN held[whom] ELSE Implicit(whom) \cup Granted(whom))

ChangeMembership(u, op, r, whom) ==
    /\ MayManage(u) /\ r \in DOMAIN cachedRoles \ {Everyone, Member} /\ BelowRank(u, r)
    /\ OutranksUser(u, whom)
    /\ Checked(u, [NoRequest EXCEPT !.op = op, !.role = r, !.whom = whom])

\* The request presents the outstanding owner token.
ClaimAdmin(u) ==
    /\ token
    /\ Checked(u, [NoRequest EXCEPT !.op = "claim"])

(* --- The statements that write ------------------------------------------- *)

Writing(u, op) == pc[u] = "write" /\ req[u].op = op /\ UNCHANGED <<cacheVars, copyVars, hub, alone, requests>>

InsertRole(u) ==
    /\ Writing(u, "create")
    /\ LET r == Max(born) + 1 IN
        /\ table' = [x \in DOMAIN table \cup {r} |-> IF x = r THEN req[u].row ELSE table[x]]
        /\ born' = born \cup {r}
    /\ Goto(u, "reload", req[u])
    /\ UNCHANGED <<grants, ownerVars>>

\* The whole row is written back, the fields the request left out included.
WriteRow(r, row) == [table EXCEPT ![r] = row]

WriteRole(u) ==
    /\ Writing(u, "update")
    /\ IF req[u].role \in DOMAIN table
       THEN table' = WriteRow(req[u].role, req[u].row) /\ Goto(u, "reload", req[u])
       ELSE Finish(u) /\ UNCHANGED table
    /\ UNCHANGED <<born, grants, ownerVars>>

\* One transaction: a role that has gone undoes all of it.
WriteOrder(u) ==
    /\ Writing(u, "reorder")
    /\ LET places == req[u].places IN
       IF DOMAIN places \subseteq DOMAIN table
       THEN /\ table' = [r \in DOMAIN table |->
                IF r \in DOMAIN places THEN [table[r] EXCEPT !.position = places[r]] ELSE table[r]]
            /\ Goto(u, "reload", req[u])
       ELSE Finish(u) /\ UNCHANGED table
    /\ UNCHANGED <<born, grants, ownerVars>>

\* wrong: the deletion does not cascade
GrantsKept(r) == grants

\* The grants that survive the deletion of a role.
GrantsBeside(r) == {g \in grants : g[2] # r}

RemoveRole(u) ==
    /\ Writing(u, "delete")
    /\ IF req[u].role \in DOMAIN table
       THEN /\ table' = Restrict(table, DOMAIN table \ {req[u].role})
            /\ grants' = GrantsBeside(req[u].role)
            /\ Goto(u, "reload", req[u])
       ELSE Finish(u) /\ UNCHANGED <<table, grants>>
    /\ UNCHANGED <<born, ownerVars>>

\* The grants after a membership request; a grant of a role that has gone fails.
GrantsAfter(request) ==
    LET g == <<request.whom, request.role>> IN
    IF request.op = "unassign" THEN grants \ {g}
    ELSE IF request.role \in DOMAIN table THEN grants \cup {g} ELSE grants

\* Only a target that is connected has a copy to refresh.
WriteMembership(u) ==
    /\ Writing(u, "assign") \/ Writing(u, "unassign")
    /\ grants' = GrantsAfter(req[u])
    /\ IF req[u].whom \in hub /\ (req[u].op = "assign" => req[u].role \in DOMAIN table)
       THEN Goto(u, "fetch", [req[u] EXCEPT !.todo = {req[u].whom}])
       ELSE Finish(u)
    /\ UNCHANGED <<table, born, ownerVars>>

\* The owner the cache holds before the claim is the one it takes over from.
SetOwner(u) ==
    /\ Writing(u, "claim")
    /\ owner' = u
    /\ Goto(u, "burn", [req[u] EXCEPT !.resync = cachedOwner \notin {NoUser, u}])
    /\ UNCHANGED <<rowVars, token>>

(* --- Bringing the hub up to date ----------------------------------------- *)

BurnToken(u) ==
    /\ pc[u] = "burn"
    /\ token' = FALSE
    /\ Goto(u, "reown", req[u])
    /\ UNCHANGED <<rowVars, owner, cacheVars, copyVars, hub, alone, requests>>

ReloadOwner(u) ==
    /\ pc[u] = "reown"
    /\ Goto(u, "instate", [req[u] EXCEPT !.whom = owner])
    /\ UNCHANGED <<rowVars, ownerVars, cacheVars, copyVars, hub, alone, requests>>

InstallOwner(u) ==
    /\ pc[u] = "instate"
    /\ cachedOwner' = req[u].whom
    /\ Goto(u, "fetch", [req[u] EXCEPT !.todo = {u}])
    /\ UNCHANGED <<rowVars, ownerVars, cachedRoles, copyVars, hub, alone, requests>>

ReloadRoles(u) ==
    /\ pc[u] = "reload"
    /\ Goto(u, "install", [req[u] EXCEPT !.seen = table])
    /\ UNCHANGED <<rowVars, ownerVars, cacheVars, copyVars, hub, alone, requests>>

InstallRoles(u) ==
    /\ pc[u] = "install"
    /\ cachedRoles' = req[u].seen
    /\ IF req[u].resync THEN Goto(u, "sweep", [req[u] EXCEPT !.seen = <<>>]) ELSE Finish(u)
    /\ UNCHANGED <<rowVars, ownerVars, cachedOwner, copyVars, hub, alone, requests>>

(* --- Bringing the sessions up to date ------------------------------------ *)

\* wrong: the author of a change is left out
OthersToResync(u) == hub \ {u}

\* Who a resync is for.
ToResync(u) == hub

\* resyncAll works through the sessions it finds.
ListSessions(u) ==
    /\ pc[u] = "sweep"
    /\ Goto(u, "fetch", [req[u] EXCEPT !.todo = ToResync(u), !.resync = FALSE])
    /\ UNCHANGED <<rowVars, ownerVars, cacheVars, copyVars, hub, alone, requests>>

\* refreshPermissions: the grants, what they add up to, and the copy.
FetchRoles(u) ==
    /\ pc[u] = "fetch"
    /\ \E t \in req[u].todo :
        Goto(u, "resolve", [req[u] EXCEPT !.whom = t, !.roles = Implicit(t) \cup Granted(t)])
    /\ UNCHANGED <<rowVars, ownerVars, cacheVars, copyVars, hub, alone, requests>>

ResolveMask(u) ==
    /\ pc[u] = "resolve"
    /\ Goto(u, "apply", [req[u] EXCEPT !.sum = PermissionsFor(req[u].whom, req[u].roles)])
    /\ UNCHANGED <<rowVars, ownerVars, cacheVars, copyVars, hub, alone, requests>>

\* After its own refresh a claim that took over from somebody resyncs everybody.
ApplyMask(u) ==
    /\ pc[u] = "apply"
    /\ held' = [held EXCEPT ![req[u].whom] = req[u].roles]
    /\ base' = [base EXCEPT ![req[u].whom] = req[u].sum]
    /\ LET left == req[u].todo \ {req[u].whom} IN
       IF left # {} THEN Goto(u, "fetch", [req[u] EXCEPT !.todo = left])
       ELSE IF req[u].op = "login" THEN Goto(u, "join", NoRequest)
       ELSE IF req[u].resync THEN Goto(u, "sweep", req[u])
       ELSE Finish(u)
    /\ UNCHANGED <<rowVars, ownerVars, cacheVars, hub, alone, requests>>

(* --- Arrival ------------------------------------------------------------- *)

\* finishAuth works out what the identity may do, and only then registers it.
Login(u) ==
    /\ pc[u] = "out" /\ Begin(u)
    /\ Goto(u, "fetch", [NoRequest EXCEPT !.op = "login", !.todo = {u}])
    /\ UNCHANGED <<rowVars, ownerVars, cacheVars, copyVars, hub>>

Join(u) ==
    /\ pc[u] = "join"
    /\ hub' = hub \cup {u}
    /\ Finish(u)
    /\ UNCHANGED <<rowVars, ownerVars, cacheVars, copyVars, alone, requests>>

\* A connected user sends one of the requests that touch roles.
Ask(u) ==
    \/ \E mask \in plan.masks : CreateRole(u, mask)
    \/ \E r \in Roles, mask \in plan.masks \cup {Same},
          position \in plan.positions \cup {Same} :
        UpdateRole(u, r, mask, position)
    \/ \E r, x \in Roles : ReorderRoles(u, r, x)
    \/ \E r \in Roles : DeleteRole(u, r)
    \/ \E op \in {"assign", "unassign"}, r \in Roles, whom \in plan.users :
        ChangeMembership(u, op, r, whom)
    \/ ClaimAdmin(u)

Proceed(u) ==
    \/ InsertRole(u) \/ WriteRole(u) \/ WriteOrder(u) \/ RemoveRole(u)
    \/ WriteMembership(u) \/ SetOwner(u) \/ BurnToken(u) \/ ReloadOwner(u) \/ InstallOwner(u)
    \/ ReloadRoles(u) \/ InstallRoles(u) \/ ListSessions(u)
    \/ FetchRoles(u) \/ ResolveMask(u) \/ ApplyMask(u) \/ Join(u)

Next ==
    /\ UNCHANGED plan
    /\ \E u \in plan.users :
        \/ RoomForAnother /\ pc[u] = "idle" /\ Ask(u)
        \/ RoomForAnother /\ Login(u)
        \/ Proceed(u)

Spec == Init /\ [][Next]_vars

(* --- Properties ---------------------------------------------------------- *)

\* What the rows of the store say of a user.
TrueRoles(u) == Implicit(u) \cup Granted(u)
TrueRank(u) == RankBy(table, owner, u, TrueRoles(u))
TrueMask(u) == MaskBy(table, owner, u, TrueRoles(u))

\* Requests come one after the other.
OneByOne == plan.inFlight = 1

\* What the hub and the sessions hold is what the rows say.
Current ==
    /\ cachedRoles = table /\ cachedOwner = owner
    /\ \A u \in hub : held[u] = TrueRoles(u) /\ base[u] = TrueMask(u)

\* As long as requests come one after the other, every copy is what the rows of the
\* store say whenever none is in progress, whichever came before, the ones that
\* resync nobody included (handlers_role.go, hub.go ReloadRoles, session.go
\* refreshPermissions).
SettledIsCurrent == OneByOne /\ Busy = {} => Current

\* Whether u finishes a resync of the sessions.
Resynced(u) == /\ pc[u] = "apply" /\ pc'[u] = "idle"
               /\ req[u].op \in {"update", "reorder", "delete"}

\* A resync heals: a request that has refreshed the sessions, and that no other
\* request overlapped, leaves behind a role cache and copies that agree with the
\* rows, whatever earlier requests that did overlap had left there
\* (handlers_channel.go resyncAll).
HealsAlone ==
    \A u \in alone : Resynced(u) =>
        /\ cachedRoles = table
        /\ \A v \in hub : /\ held'[v] = TrueRoles(v)
                          /\ base'[v] = MaskBy(table, cachedOwner, v, TrueRoles(v))

\* Nobody is the owner or can become it, and everybody starts below the administrators.
Leaderless ==
    /\ plan.owner = NoUser /\ ~plan.token
    /\ plan.table[Member].position < plan.table[Admin].position
    /\ \A g \in plan.grants : plan.table[g[2]].position < plan.table[Admin].position

\* Managing roles is no route upwards (handleRoleCreate, changeRoleMembership):
\* as long as no owner does anything, no sequence of requests takes anybody to the
\* level of the administrators, or gives them a permission that no role beside that
\* of the administrators had at the start.
NoRouteUpwards ==
    LET given == Resolve({plan.table[r].mask : r \in DOMAIN plan.table \ {Admin}}) IN
    OneByOne /\ Leaderless => \A u \in Users :
        TrueRank(u) < table[Admin].position /\ TrueMask(u) \subseteq given

\* No two roles sit on one level.
NoTies == \A r, x \in DOMAIN table : table[r].position = table[x].position => r = x

\* No request puts its own author above somebody who stood level with them or
\* higher: what a moderator writes never widens the set of users they may act
\* on (handlers_role.go requireOutranksUser, handleRoleReorder).  It holds of
\* stacks without ties only, see the README.
KeepsBelow ==
    \A u, v \in Users : pc[u] = "write" /\ u # owner /\ req[u].op # "claim" /\ NoTies =>
        (TrueRank(u) <= TrueRank(v) => TrueRank(u)' <= TrueRank(v)')

\* As long as requests come one after the other, managing roles is a way up neither
\* past somebody nor to the administrators.
NoWayUp == [][(OneByOne => KeepsBelow) /\ NoRouteUpwards']_vars

\* Wherever requests overlap, one that resyncs and that no other overlapped leaves
\* every copy as the rows say.
ResyncHeals == [][HealsAlone]_vars

\* A permission change only touches bits its author holds (docs/PROTOCOL.md:600,
\* handlers_role.go:132).
FlipsOnlyHeldBits ==
    [][\A u \in Users :
        pc[u] = "write" /\ req[u].op = "update" /\ req[u].role \in DOMAIN table
        => LET r == req[u].role IN
           pc'[u] # "write" => Has(base[u], Flipped(table[r].mask, table'[r].mask))]_vars
===============================================================================
