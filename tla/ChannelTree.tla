------------------------------- MODULE ChannelTree -------------------------------
(***************************************************************************)
(* The tree of channels: the table, the copy the hub answers from, who may *)
(* see and enter what, and what the client of each member shows.  Every    *)
(* query is a step, and so are the replacement of the hub's copy and, for  *)
(* each client, the building of a snapshot and its sending.  Rank, and     *)
(* what roles grant, are fixed here; names stand for the topic, the order  *)
(* and the limit of a channel too.                                         *)
(***************************************************************************)
EXTENDS Naturals, FiniteSets, Sequences

CONSTANT Plans \* who is there, what there is to begin with and what may happen

VARIABLES
    plan,
    left,   \* what may still happen, by kind
    rows,   \* the channels, by id: [parent, kind, name, over]
    last,   \* the last id given out
    cache,  \* Hub.channels, replaced as a whole
    roles,  \* the roles there are
    grants, \* per person, the roles they hold
    held,   \* per person, the roles their session goes by
    online, \* per person: "off", "in" the hub, or "on" with a snapshot
    sits,   \* per person, the voice channel they are in
    req,    \* per person, the request that is answered
    shown   \* per person, the tree their client shows

tables == <<rows, last, grants, roles>>
vars == <<plan, left, tables, cache, held, online, sits, req, shown>>

People == plan.people
Root == 0
Category == "category"
Everyone == "everyone"
All == {"view", "connect", "channels", "roles", "admin"}
Free == [at |-> "free", op |-> "none", id |-> 0, row |-> <<>>, list |-> <<>>, gone |-> {}, sync |-> {}, to |-> "none",
         alone |-> FALSE]

Spend(kind) == left[kind] > 0 /\ left' = [left EXCEPT ![kind] = @ - 1]
With(f, k, v) == [x \in DOMAIN f \cup {k} |-> IF x = k THEN v ELSE f[x]]
Without(f, ks) == [x \in DOMAIN f \ ks |-> f[x]]
At(p, at) == req[p].at = at
Quiet == \A p \in People : At(p, "free")
\* A request runs alone if nobody's is answered when it comes, and none comes before it is answered.
Ask(p, r) ==
    /\ At(p, "free") /\ (plan.turns => Quiet)
    /\ req' = [q \in People |-> IF q = p THEN [r EXCEPT !.alone = Quiet] ELSE [req[q] EXCEPT !.alone = FALSE]]
Move(p, at) == req' = [req EXCEPT ![p].at = at]
Done(p) == req' = [req EXCEPT ![p] = Free]

---------------------------------------------------------------------------
(* Who may do what where.                                                   *)

\* Resolve
Base(names) == LET bits == UNION {plan.masks[r] : r \in names} IN IF "admin" \in bits THEN All ELSE bits
\* Permission.Has
Has(bits, want) == "admin" \in bits \/ want \subseteq bits

Given(over, names) == UNION {over[r].allow : r \in names \cap DOMAIN over}
Denied(over, names) == UNION {over[r].deny : r \in names \cap DOMAIN over}
Adjusted(bits, over, names) == (bits \ Denied(over, names)) \cup Given(over, names)
\* ResolveInChannel: everyone's overwrite, then those of the other roles together.
ResolveIn(bits, names, over) ==
    LET mine == Adjusted(Adjusted(bits, over, {Everyone}), over, names \ {Everyone})
    IN  IF "admin" \in bits THEN All ELSE IF "view" \in mine THEN mine ELSE {}

\* ancestorChain: categories are at the root, so there is one at most.
Chain(tree, id) ==
    IF id \notin DOMAIN tree THEN <<>>
    ELSE IF tree[id].parent \in DOMAIN tree THEN <<tree[id].parent, id>> ELSE <<id>>
\* ChannelPermissions
Perms(tree, names, id) ==
    LET chain == Chain(tree, id)
        Level(bits, i) == ResolveIn(bits, names, tree[chain[i]].over)
        outer == Level(Base(names), 1)
    IN  IF chain = <<>> THEN Base(names) ELSE IF Len(chain) = 1 \/ outer = {} THEN outer ELSE Level(outer, 2)

\* requireChannelPermission
MayIn(p, id, bit) ==
    IF id = Root THEN Has(Base(held[p]), {bit})
    ELSE LET bits == Perms(cache, held[p], id) IN Has(bits, {"view"}) /\ Has(bits, {bit})
\* validateParent and rejectParentCycle, by the hub's copy.
ParentFits(kind, parent) ==
    parent = Root \/ (kind # Category /\ parent \in DOMAIN cache /\ cache[parent].kind = Category)
\* An overwrite is of a role that is there, and hands out and takes what its author has; an allowance
\* takes precedence over a denial, and one that does neither is left out.
Writable(p, over) ==
    /\ Has(Base(held[p]), {"roles"})
    /\ \A r \in DOMAIN over : r \in roles /\ Has(Base(held[p]), over[r].allow) /\ Has(Base(held[p]), over[r].deny)
Cleaned(over) ==
    LET clean == [r \in DOMAIN over |-> [allow |-> over[r].allow, deny |-> over[r].deny \ over[r].allow]]
    IN  [r \in {x \in DOMAIN over : clean[x].allow \cup clean[x].deny # {}} |-> clean[r]]

\* VisibleChannels, under roles and out of a tree.
Visible(tree, names) ==
    [id \in {i \in DOMAIN tree : Has(Perms(tree, names, i), {"view"})} |-> tree[id]]

---------------------------------------------------------------------------
(* Making a channel.                                                        *)

Create(p) ==
    /\ Spend("create") /\ online[p] = "on"
    /\ \E kind \in plan.kinds, parent \in {Root} \cup DOMAIN cache :
        /\ MayIn(p, parent, "channels") /\ ParentFits(kind, parent)
        /\ Ask(p, [Free EXCEPT !.at = "insert", !.op = "create",
                               !.row = [parent |-> parent, kind |-> kind, name |-> "new", over |-> <<>>]])
    /\ UNCHANGED <<plan, tables, cache, held, online, sits, shown>>

There(parent) == parent = Root \/ parent \in DOMAIN rows

\* CreateChannel: the parent is a foreign key.
Insert(p) ==
    /\ At(p, "insert")
    /\ IF There(req[p].row.parent)
       THEN /\ last' = last + 1 /\ rows' = With(rows, last', req[p].row)
            /\ req' = [req EXCEPT ![p].at = "list", ![p].id = last']
       ELSE Done(p) /\ UNCHANGED <<rows, last>>
    /\ UNCHANGED <<plan, left, grants, roles, cache, held, online, sits, shown>>

---------------------------------------------------------------------------
(* Changing one.                                                            *)

\* A request names the fields it changes.
Patched(row, change) == [f \in DOMAIN row |-> IF f \in DOMAIN change THEN change[f] ELSE row[f]]

\* wrong: those who see the channel already
Onlookers(id) == {q \in People : Has(Perms(cache, held[q], id), {"view"})}
\* Anybody may see more or less of the tree from now on.
Affected(id) == People

\* The row is the hub's, patched; who sees what changes with the parent or the overwrites.
Update(p) ==
    /\ Spend("update") /\ online[p] = "on"
    /\ \E id \in DOMAIN cache, change \in plan.changes :
        /\ MayIn(p, id, "channels")
        /\ "parent" \in DOMAIN change =>
            ParentFits(cache[id].kind, change.parent) /\ change.parent # id /\ MayIn(p, change.parent, "channels")
        /\ "over" \in DOMAIN change => Writable(p, change.over)
        /\ Ask(p, [Free EXCEPT !.at = IF "over" \in DOMAIN change THEN "over" ELSE "write", !.id = id,
                               !.op = IF DOMAIN change = {"name"} THEN "rename" ELSE "reshape",
                               !.row = Patched(cache[id], change), !.sync = Affected(id)])
    /\ UNCHANGED <<plan, tables, cache, held, online, sits, shown>>

\* SetOverwrites: a transaction, which the foreign keys may refuse.
SetOverwrites(p) ==
    /\ At(p, "over")
    /\ LET id == req[p].id
           over == Cleaned(req[p].row.over)
           kept == DOMAIN over \subseteq roles /\ (id \in DOMAIN rows \/ DOMAIN over = {})
       IN  /\ IF kept THEN Move(p, "write") ELSE Done(p)
           /\ rows' = IF kept /\ id \in DOMAIN rows THEN [rows EXCEPT ![id].over = over] ELSE rows
    /\ UNCHANGED <<plan, left, last, grants, roles, cache, held, online, sits, shown>>

\* UpdateChannel: everything but the overwrites is written back.
Write(p) ==
    /\ At(p, "write")
    /\ LET r == req[p]
           fits == r.id \in DOMAIN rows /\ There(r.row.parent)
       IN  /\ IF fits THEN Move(p, "list") ELSE Done(p)
           /\ rows' = IF fits THEN [rows EXCEPT ![r.id].parent = r.row.parent, ![r.id].name = r.row.name] ELSE rows
    /\ UNCHANGED <<plan, left, last, grants, roles, cache, held, online, sits, shown>>

---------------------------------------------------------------------------
(* Removing one, with what is in it.                                        *)

Delete(p) ==
    /\ Spend("delete") /\ online[p] = "on"
    /\ \E id \in DOMAIN cache :
        MayIn(p, id, "channels") /\ Ask(p, [Free EXCEPT !.at = "below", !.op = "delete", !.id = id])
    /\ UNCHANGED <<plan, tables, cache, held, online, sits, shown>>

Inside(id) == {c \in DOMAIN rows : rows[c].parent = id}

\* DescendantIDs
Below(p) ==
    /\ At(p, "below") /\ req' = [req EXCEPT ![p].at = "remove", ![p].gone = {req[p].id} \cup Inside(req[p].id)]
    /\ UNCHANGED <<plan, left, tables, cache, held, online, sits, shown>>

\* DeleteChannel: the rows inside go by cascade.
Remove(p) ==
    /\ At(p, "remove")
    /\ LET id == req[p].id
       IN  IF id \in DOMAIN rows THEN Move(p, "list") /\ rows' = Without(rows, {id} \cup Inside(id))
           ELSE Done(p) /\ UNCHANGED rows
    /\ UNCHANGED <<plan, left, last, grants, roles, cache, held, online, sits, shown>>

\* evictFromChannels
Oust(p) ==
    /\ At(p, "oust") /\ Move(p, "tell")
    /\ sits' = [q \in People |-> IF sits[q] \in req[p].gone THEN Root ELSE sits[q]]
    /\ UNCHANGED <<plan, left, tables, cache, held, online, shown>>

---------------------------------------------------------------------------
(* Afterwards: the hub's copy, then the clients.                            *)

\* AllChannels reads the rows,
List(p) ==
    /\ At(p, "list") /\ req' = [req EXCEPT ![p].at = "join", ![p].list = rows]
    /\ UNCHANGED <<plan, left, tables, cache, held, online, sits, shown>>

\* and then the overwrites of all of them.
Join(p) ==
    /\ At(p, "join")
    /\ req' = [req EXCEPT ![p].at = "install",
                          ![p].list = [id \in DOMAIN @ |->
                                         [@[id] EXCEPT !.over = IF id \in DOMAIN rows THEN rows[id].over ELSE <<>>]]]
    /\ UNCHANGED <<plan, left, tables, cache, held, online, sits, shown>>

\* ReloadChannels puts it in the place of the old copy.
Install(p) ==
    /\ At(p, "install") /\ cache' = req[p].list
    /\ Move(p, IF req[p].op = "delete" THEN "oust" ELSE IF req[p].op = "reshape" THEN "sync" ELSE "tell")
    /\ UNCHANGED <<plan, left, tables, held, online, sits, shown>>

\* BroadcastChannelEvent: those who see the channel by the hub's copy.
Told(p) == {q \in People : online[q] # "off" /\ Has(Perms(cache, held[q], req[p].id), {"view"})}

\* A client without its snapshot has nothing to change yet.
Tell(p) ==
    /\ At(p, "tell")
    /\ LET r == req[p]
       IN  /\ shown' = [q \in People |-> IF online[q] # "on" THEN shown[q]
                                         ELSE IF r.op = "delete" THEN Without(shown[q], r.gone)
                                         ELSE IF q \in Told(p) THEN With(shown[q], r.id, r.row) ELSE shown[q]]
           /\ IF r.op = "rename" THEN Move(p, "evict") ELSE Done(p)
    /\ UNCHANGED <<plan, left, tables, cache, held, online, sits>>

\* refreshPermissions: everybody holds Everyone.
Refreshed(q) == (grants[q] \cup {Everyone}) \cap roles

\* resyncAll goes from session to session: its roles are read again, and a snapshot is built.
Resync(p, q) ==
    /\ At(p, "sync") /\ q \in req[p].sync /\ online[q] # "off"
    /\ held' = [held EXCEPT ![q] = Refreshed(q)]
    /\ req' = [req EXCEPT ![p].at = "send", ![p].sync = @ \ {q}, ![p].to = q, ![p].list = Visible(cache, Refreshed(q))]
    /\ UNCHANGED <<plan, left, tables, cache, online, sits, shown>>

\* A client that is still coming in has yet to be given its first.
Send(p) ==
    /\ At(p, "send") /\ Move(p, "sync")
    /\ shown' = IF online[req[p].to] = "on" THEN [shown EXCEPT ![req[p].to] = req[p].list] ELSE shown
    /\ UNCHANGED <<plan, left, tables, cache, held, online, sits>>

Synced(p) ==
    /\ At(p, "sync") /\ (\A q \in req[p].sync : online[q] = "off") /\ Move(p, "evict")
    /\ UNCHANGED <<plan, left, tables, cache, held, online, sits, shown>>

\* evictFromUnreachableChannels
Evict(p) ==
    /\ At(p, "evict") /\ Done(p)
    /\ sits' = [q \in People |-> IF sits[q] # Root /\ Has(Perms(cache, held[q], sits[q]), {"connect"}) THEN sits[q] ELSE Root]
    /\ UNCHANGED <<plan, left, tables, cache, held, online, shown>>

---------------------------------------------------------------------------
(* Roles, as far as the tree depends on them.                               *)

\* changeRoleMembership, of somebody who is there.
Grant(p) ==
    /\ Spend("grant") /\ online[p] = "on" /\ Has(Base(held[p]), {"roles"})
    /\ \E q \in People, r \in roles \ {Everyone} :
        /\ online[q] = "on" /\ Ask(p, [Free EXCEPT !.at = "sync", !.op = "grant", !.sync = {q}])
        /\ grants' = [grants EXCEPT ![q] = IF r \in @ THEN @ \ {r} ELSE @ \cup {r}]
    /\ UNCHANGED <<plan, rows, last, roles, cache, held, online, sits, shown>>

\* handleRoleDelete: the overwrites of the role go by cascade, and the hub's copy of them stays.
DropRole(p) ==
    /\ Spend("drop") /\ online[p] = "on" /\ Has(Base(held[p]), {"roles"})
    /\ \E r \in roles \ {Everyone} :
        /\ Ask(p, [Free EXCEPT !.at = "sync", !.op = "drop", !.sync = People])
        /\ roles' = roles \ {r} /\ grants' = [q \in People |-> grants[q] \ {r}]
        /\ rows' = [id \in DOMAIN rows |-> [rows[id] EXCEPT !.over = Without(@, {r})]]
    /\ UNCHANGED <<plan, last, cache, held, online, sits, shown>>

---------------------------------------------------------------------------
(* Coming in, and going to a voice channel.                                 *)

\* The roles are read, and the session is in the hub.
Enter(p) ==
    /\ Spend("enter") /\ online[p] = "off" /\ online' = [online EXCEPT ![p] = "in"]
    /\ Ask(p, [Free EXCEPT !.at = "build", !.op = "enter"]) /\ held' = [held EXCEPT ![p] = Refreshed(p)]
    /\ UNCHANGED <<plan, tables, cache, sits, shown>>

\* buildReady, and the answer that carries it.
Build(p) ==
    /\ At(p, "build") /\ req' = [req EXCEPT ![p].at = "ready", ![p].list = Visible(cache, held[p])]
    /\ UNCHANGED <<plan, left, tables, cache, held, online, sits, shown>>
Ready(p) ==
    /\ At(p, "ready") /\ Done(p)
    /\ online' = [online EXCEPT ![p] = "on"] /\ shown' = [shown EXCEPT ![p] = req[p].list]
    /\ UNCHANGED <<plan, left, tables, cache, held, sits>>

\* handleUserMove, by oneself.
MaySit(p, id) == Has(Perms(cache, held[p], id), {"view"}) /\ Has(Perms(cache, held[p], id), {"connect"})
Sit(p) ==
    /\ Spend("sit") /\ online[p] = "on"
    /\ \E id \in DOMAIN cache \ {sits[p]} :
        /\ cache[id].kind = "voice" /\ MaySit(p, id) /\ Ask(p, [Free EXCEPT !.at = "seat", !.op = "sit", !.id = id])
    /\ UNCHANGED <<plan, tables, cache, held, online, sits, shown>>
Seat(p) ==
    /\ At(p, "seat") /\ Done(p) /\ sits' = [sits EXCEPT ![p] = req[p].id]
    /\ UNCHANGED <<plan, left, tables, cache, held, online, shown>>

---------------------------------------------------------------------------

Init ==
    /\ plan \in Plans /\ left = plan.left /\ rows = plan.rows /\ last = Cardinality(DOMAIN plan.rows)
    /\ cache = plan.rows /\ roles = DOMAIN plan.masks /\ grants = plan.grants /\ online = plan.online
    /\ held = [p \in plan.people |-> plan.grants[p] \cup {Everyone}]
    /\ sits = [p \in plan.people |-> Root] /\ req = [p \in plan.people |-> Free]
    /\ shown = [p \in plan.people |-> IF plan.online[p] = "on" THEN Visible(plan.rows, held[p]) ELSE <<>>]

Step(p) ==
    \/ Create(p) \/ Insert(p) \/ Update(p) \/ SetOverwrites(p) \/ Write(p)
    \/ Delete(p) \/ Below(p) \/ Remove(p) \/ Oust(p) \/ List(p) \/ Join(p) \/ Install(p) \/ Tell(p)
    \/ (\E q \in People : Resync(p, q)) \/ Send(p) \/ Synced(p) \/ Evict(p)
    \/ Grant(p) \/ DropRole(p) \/ Enter(p) \/ Build(p) \/ Ready(p) \/ Sit(p) \/ Seat(p)

Next == \E p \in People : Step(p)

---------------------------------------------------------------------------
(* Properties.                                                              *)

TypeOK ==
    /\ DOMAIN rows \subseteq 1..last /\ DOMAIN cache \subseteq 1..last /\ Everyone \in roles
    /\ \A p \in People : grants[p] \subseteq roles /\ sits[p] \in 0..last /\ (online[p] # "on" => shown[p] = <<>>)

Shapely(tree) ==
    \A id \in DOMAIN tree : tree[id].parent # Root =>
        /\ tree[id].parent \in DOMAIN tree /\ tree[tree[id].parent].kind = Category
        /\ tree[id].kind # Category

\* Whatever is made, moved and removed at once, in the table and in the hub's copy of it every channel is at
\* the root or in a category that is there, and no category is in another.
TreeShape == Shapely(rows) /\ Shapely(cache)

\* The channels there are to begin with are numbered from one and form a tree.
PlansFit ==
    \A pl \in Plans :
        /\ IsFiniteSet(DOMAIN pl.rows) /\ DOMAIN pl.rows = 1..Cardinality(DOMAIN pl.rows) /\ Shapely(pl.rows)
        /\ \A id \in DOMAIN pl.rows : DOMAIN pl.rows[id] = {"parent", "kind", "name", "over"}

\* What a client shows of an overwrite whose role is gone does not count.
Known(tree) == [id \in DOMAIN tree |-> [tree[id] EXCEPT !.over = Without(@, DOMAIN @ \ roles)]]
\* Everybody shows the tree as the table says they may, and sits where they may.
Current ==
    \A p \in People : online[p] = "on" =>
        /\ Known(shown[p]) = Visible(rows, Refreshed(p))
        /\ sits[p] # Root => sits[p] \in DOMAIN rows /\ "connect" \in Perms(rows, Refreshed(p), sits[p])

\* Requests taken one by one leave every client with the tree it may see, and nobody where they may not be.
TurnsCurrent == plan.turns /\ Quiet => Current

\* However requests overlapped before: one that changes who sees what and runs alone puts every client right.
LoneResyncHeals ==
    \A p \in People : req[p].alone /\ At(p, "evict") /\ req[p].op = "reshape" =>
        \A q \in People : online[q] = "on" => Known(shown[q]) = Visible(rows, Refreshed(q))

Spec == Init /\ [][Next]_vars
================================================================================
