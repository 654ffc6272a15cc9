------------------------------- MODULE Identities -------------------------------
(***************************************************************************)
(* Who may come in, and who is put out: guests and accounts, the tokens    *)
(* that bring them back, the places they were seen at, and the bans and    *)
(* kicks of moderators.  A handler takes a step for every query and for    *)
(* every look at the hub, and the connections are closed by goroutines of  *)
(* their own.                                                              *)
(***************************************************************************)
EXTENDS Naturals, Sequences, FiniteSets

CONSTANTS
    Plans,    \* who is there, from where, and what may happen
    MaxMarks, \* maxBanMarks
    MaxTries, \* maxAuthAttempts
    Keep,     \* TokenIdleDays and GuestIdleDays
    MaxTime   \* bound: the days that pass

VARIABLES
    plan,
    left,    \* what may still happen, by kind
    clock,   \* days
    users,   \* the rows of users: [account, seen], by id
    tokens,  \* the rows of tokens: [no, user, used]
    marks,   \* the rows of identity_marks: [user, place, seen]
    bans,    \* the rows of bans: [user, by, ends], by id; ends 0 is never
    matches, \* the rows of ban_matches: the ban of a handle
    last,    \* the ids given out, by table, and the connections made
    conn,    \* the connections: how far each is, and as whom
    kept,    \* the token a client holds, 0 for none
    req,     \* the request a moderator's connection answers
    board,   \* the bans a moderator's client shows
    sweep    \* what the sweeper does next

store == <<users, tokens, marks, bans, matches, last>>
vars == <<plan, left, clock, store, conn, kept, req, board, sweep>>

Conns == DOMAIN plan.place
Out == [at |-> "out", op |-> "none", user |-> 0, token |-> 0, tries |-> 0, no |-> 0, closing |-> FALSE,
        asked |-> 0, missed |-> {}]
Free == [at |-> "free", op |-> "none", user |-> 0, ban |-> 0, handles |-> {}, ends |-> 0, no |-> 0, list |-> {}]

Spend(kind) == left[kind] > 0 /\ left' = [left EXCEPT ![kind] = @ - 1]
With(f, k, v) == [x \in DOMAIN f \cup {k} |-> IF x = k THEN v ELSE f[x]]
Only(f, S) == [x \in DOMAIN f \cap S |-> f[x]]
At(c, at) == conn[c].at = at
Step(m, at) == req[m].at = at
Move(m, at) == req' = [req EXCEPT ![m].at = at]
Done(m) == req' = [req EXCEPT ![m] = Free]

\* Hub.Sessions
InHub(c) == conn[c].at \in {"seated", "on"}
Online(u) == {c \in Conns : InHub(c) /\ conn[c].user = u}
\* go session.Close
Shut(S) == [c \in Conns |-> IF c \in S THEN [conn[c] EXCEPT !.closing = TRUE] ELSE conn[c]]

IsOwner(u) == u = plan.owner
Rank(u) == IF IsOwner(u) THEN 9 ELSE IF u \in DOMAIN plan.rank THEN plan.rank[u] ELSE 0
\* Base permissions: the plan's moderators hold BanUsers and KickUsers.
Staff(c) == InHub(c) /\ Rank(conn[c].user) > 0
Moderates(m) ==
    /\ At(m, "on") /\ Staff(m) /\ Step(m, "free")
    /\ plan.turns => \A x \in Conns : Step(x, "free")

\* The address and the machine; a client may declare none.
HandlesAt(place) == {<<"ip", place.ip>>} \cup {<<"device", d>> : d \in {place.device} \ {"none"}}
Handles(c) == HandlesAt(plan.place[c]) \cup {<<"user", u>> : u \in {conn[c].user} \ {0}}
\* Ban.Active
Active(b) == bans[b].ends = 0 \/ bans[b].ends > clock
\* FindBan
Catching(handles) == {matches[h] : h \in {x \in handles \cap DOMAIN matches : Active(matches[x])}}

---------------------------------------------------------------------------
(* Coming in.                                                               *)

\* beginAuthAttempt: one too many, and the connection is cut.
Attempt(c, r) ==
    /\ At(c, "out") /\ Spend("enter") /\ ~conn[c].closing
    /\ conn' = [conn EXCEPT ![c] = IF conn[c].tries = MaxTries THEN [Out EXCEPT !.tries = MaxTries, !.closing = TRUE]
                                   ELSE [r EXCEPT !.tries = conn[c].tries + 1]]

\* handleAuthGuest: screened before there is anybody.
AsGuest(c) ==
    /\ Attempt(c, [Out EXCEPT !.at = "asked", !.op = "guest"])
    /\ UNCHANGED <<plan, clock, store, kept, req, board, sweep>>

\* handleAuthToken
WithToken(c) ==
    /\ \E t \in tokens :
        t.no = kept[c] /\ Attempt(c, [Out EXCEPT !.at = "asked", !.op = "token", !.user = t.user, !.token = t.no])
    /\ UNCHANGED <<plan, clock, store, kept, req, board, sweep>>

\* handleAuthLogin
WithPassword(c) ==
    /\ \E u \in plan.knows[c] \cap DOMAIN users :
        users[u].account /\ Attempt(c, [Out EXCEPT !.at = "asked", !.op = "login", !.user = u])
    /\ UNCHANGED <<plan, clock, store, kept, req, board, sweep>>

\* screenConnection, and FindActiveBan.
Screen(c) ==
    /\ At(c, "asked")
    /\ conn' = [conn EXCEPT ![c] =
        IF IsOwner(@.user) \/ Catching(Handles(c)) = {} THEN [@ EXCEPT !.at = "passed", !.asked = last.ban]
        ELSE [Out EXCEPT !.tries = conn[c].tries]]
    /\ UNCHANGED <<plan, left, clock, store, kept, req, board, sweep>>

\* CreateGuest, CreateToken
Mint(c) ==
    /\ At(c, "passed") /\ conn[c].op = "guest"
    /\ LET u == last.user + 1
           t == last.token + 1
       IN  /\ users' = With(users, u, [account |-> FALSE, seen |-> clock])
           /\ tokens' = tokens \cup {[no |-> t, user |-> u, used |-> clock]}
           /\ last' = [last EXCEPT !.user = u, !.token = t]
           /\ kept' = [kept EXCEPT ![c] = t]
           /\ conn' = [conn EXCEPT ![c].at = "known", ![c].user = u, ![c].token = t]
    /\ UNCHANGED <<plan, left, clock, marks, bans, matches, req, board, sweep>>

\* TouchToken: of one that is gone, nothing.
Touch(c) ==
    /\ At(c, "passed") /\ conn[c].op = "token"
    /\ tokens' = {IF t.no = conn[c].token THEN [t EXCEPT !.used = clock] ELSE t : t \in tokens}
    /\ conn' = [conn EXCEPT ![c].at = "known"]
    /\ UNCHANGED <<plan, left, clock, users, marks, bans, matches, last, kept, req, board, sweep>>

\* CreateToken: its foreign key refuses one for nobody.
Grant(c) ==
    /\ At(c, "passed") /\ conn[c].op = "login"
    /\ IF conn[c].user \in DOMAIN users
       THEN LET t == last.token + 1
            IN  /\ tokens' = tokens \cup {[no |-> t, user |-> conn[c].user, used |-> clock]}
                /\ last' = [last EXCEPT !.token = t] /\ kept' = [kept EXCEPT ![c] = t]
                /\ conn' = [conn EXCEPT ![c].at = "known", ![c].token = t]
       ELSE conn' = [conn EXCEPT ![c] = [Out EXCEPT !.tries = conn[c].tries]] /\ UNCHANGED <<tokens, last, kept>>
    /\ UNCHANGED <<plan, left, clock, users, marks, bans, matches, req, board, sweep>>

\* Of a ban: from when it is stored until enforceBan has seen the sessions.
Pending(b) == \E m \in Conns : req[m].ban = b /\ req[m].op = "ban" /\ req[m].at # "tell"

\* finishAuth: the place in the hub, which an identity has once.
Seat(c) ==
    /\ At(c, "known")
    /\ Online(conn[c].user) \cap {m \in Conns : ~Step(m, "free")} = {}
    /\ conn' = [x \in Conns |->
        IF x = c THEN [conn[c] EXCEPT !.at = "seated", !.no = last.conn + 1,
                                      !.missed = {b \in DOMAIN bans : b > conn[c].asked /\ ~Pending(b)}]
        ELSE IF x \in Online(conn[c].user) THEN Out ELSE conn[x]]
    /\ last' = [last EXCEPT !.conn = @ + 1]
    /\ board' = [x \in Conns |-> IF x \in Online(conn[c].user) THEN {} ELSE board[x]]
    /\ UNCHANGED <<plan, left, clock, users, tokens, marks, bans, matches, kept, req, sweep>>

\* TouchUser and RecordIdentityMark, neither of which can fail the login.
Record(c) ==
    /\ At(c, "seated")
    /\ LET u == conn[c].user
           mark == [user |-> u, place |-> plan.place[c], seen |-> clock]
       IN  IF u \notin DOMAIN users THEN UNCHANGED <<users, marks>>
           ELSE /\ users' = [users EXCEPT ![u].seen = clock]
                /\ marks' = {k \in marks : k.user # u \/ k.place # mark.place} \cup {mark}
    /\ conn' = [conn EXCEPT ![c].at = "on"]
    /\ UNCHANGED <<plan, left, clock, tokens, bans, matches, last, kept, req, board, sweep>>

---------------------------------------------------------------------------
(* Being in, and leaving.                                                   *)

\* ClaimIdentity
Claim(u) == users' = [users EXCEPT ![u].account = TRUE]

\* handleAuthRegister: the guest's row becomes the account's.
Register(c) ==
    /\ Spend("register") /\ At(c, "on")
    /\ conn[c].user \in DOMAIN users /\ ~users[conn[c].user].account
    /\ Claim(conn[c].user)
    /\ UNCHANGED <<plan, clock, tokens, marks, bans, matches, last, conn, kept, req, board, sweep>>

\* handleAuthLogout
Logout(c) ==
    /\ Spend("logout") /\ At(c, "on") /\ Step(c, "free")
    /\ tokens' = {t \in tokens : t.no # conn[c].token}
    /\ conn' = Shut({c})
    /\ UNCHANGED <<plan, clock, users, marks, bans, matches, last, kept, req, board, sweep>>

\* The session ends once it is told to, or when its client goes.
End(c) ==
    /\ ~At(c, "out") \/ conn[c].closing
    /\ Step(c, "free")
    /\ IF conn[c].closing THEN UNCHANGED left ELSE Spend("leave")
    /\ conn' = [conn EXCEPT ![c] = Out] /\ board' = [board EXCEPT ![c] = {}]
    /\ UNCHANGED <<plan, clock, store, kept, req, sweep>>

---------------------------------------------------------------------------
(* handleBanCreate and handleUserKick.                                      *)

\* requireOutranksUser
Outranks(m, u) == Rank(conn[m].user) > Rank(u)

\* IdentityMarks: the most recent ones, and of two of one day either.
Recent(u) ==
    LET mine == {k \in marks : k.user = u}
        n == IF Cardinality(mine) < MaxMarks THEN Cardinality(mine) ELSE MaxMarks
    IN  {s \in [1..n -> mine] :
            /\ \A i, j \in 1..n : i < j => s[i] # s[j] /\ s[i].seen >= s[j].seen
            /\ \A i \in 1..n, k \in mine : k.seen > s[i].seen => \E j \in 1..n : s[j] = k}

\* What the moderator is sitting behind, and the owner who is there.
Shielded(m) == UNION {HandlesAt(plan.place[c]) : c \in {m} \cup Online(plan.owner)}

\* Where they are comes first, and then where they were.
Places(u, recent) ==
    {<<0, plan.place[c]>> : c \in Online(u)} \cup {<<i, recent[i].place>> : i \in DOMAIN recent}

\* Of a place the address is added before the machine.
Turns(places, h) == {2 * x[1] + (IF h[1] = "ip" THEN 0 ELSE 1) : x \in {y \in places : h \in HandlesAt(y[2])}}
Sooner(places, g, h) == \E i \in Turns(places, g) : \A j \in Turns(places, h) : i < j

\* banHandles: each handle once, none that is shielded, and as many as there is room for.
BanHandles(m, u, recent, kinds) ==
    LET places == Places(u, recent)
        wanted == {h \in UNION {HandlesAt(x[2]) : x \in places} : h[1] \in kinds} \ Shielded(m)
    IN  {h \in wanted : Cardinality({g \in wanted : Sooner(places, g, h)}) < 2 * MaxMarks}

Ban(m) ==
    /\ Spend("ban") /\ Moderates(m)
    /\ \E u \in DOMAIN users, kinds \in plan.kinds, days \in plan.days :
        /\ u # conn[m].user /\ ~IsOwner(u) /\ Outranks(m, u)
        /\ \E recent \in Recent(u) :
            req' = [req EXCEPT ![m] = [Free EXCEPT !.at = "store", !.op = "ban", !.user = u,
                                                   !.handles = {<<"user", u>>} \cup BanHandles(m, u, recent, kinds),
                                                   !.ends = IF days = 0 THEN 0 ELSE clock + days]]
    /\ UNCHANGED <<plan, clock, store, conn, kept, board, sweep>>

\* CreateBan: a handle of another ban moves to this one.
StoreBan(m) ==
    /\ Step(m, "store")
    /\ LET b == last.ban + 1
       IN  /\ bans' = With(bans, b, [user |-> req[m].user, by |-> m, ends |-> req[m].ends])
           /\ matches' = [h \in DOMAIN matches \cup req[m].handles |-> IF h \in req[m].handles THEN b ELSE matches[h]]
           /\ last' = [last EXCEPT !.ban = b]
           /\ req' = [req EXCEPT ![m].at = "close", ![m].ban = b]
    /\ UNCHANGED <<plan, left, clock, users, tokens, marks, conn, kept, board, sweep>>

\* The session of the one kicked is looked up first, and closed once the kick is recorded.
Kick(m) ==
    /\ Spend("kick") /\ Moderates(m)
    /\ \E u \in DOMAIN users \cup {conn[c].user : c \in {x \in Conns : InHub(x)}} :
        /\ u # conn[m].user /\ Outranks(m, u)
        /\ req' = [req EXCEPT ![m] = [Free EXCEPT !.at = "close", !.op = "kick", !.user = u,
                      !.no = IF Online(u) = {} THEN 0 ELSE conn[CHOOSE c \in Online(u) : TRUE].no]]
    /\ UNCHANGED <<plan, clock, store, conn, kept, board, sweep>>

\* A ban looks now; a kick closes the session it found.
CloseTarget(m) ==
    /\ Step(m, "close")
    /\ conn' = Shut({c \in Online(req[m].user) : req[m].op = "kick" => conn[c].no = req[m].no})
    /\ Move(m, "tokens")
    /\ UNCHANGED <<plan, left, clock, store, kept, board, sweep>>

\* DeleteTokensForUser
DropTokens(m) ==
    /\ Step(m, "tokens")
    /\ tokens' = {t \in tokens : t.user # req[m].user}
    /\ Move(m, "user")
    /\ UNCHANGED <<plan, left, clock, users, marks, bans, matches, last, conn, kept, board, sweep>>

\* wrong: the rows of who is gone stay
NoCascade(table, u) == table
\* What refers to a row goes with it.
Cascade(table, u) == {row \in table : row.user # u}

\* DeleteUser, which takes tokens and marks along.
DropUser(m) ==
    /\ Step(m, "user")
    /\ users' = Only(users, DOMAIN users \ {req[m].user})
    /\ tokens' = Cascade(tokens, req[m].user)
    /\ marks' = Cascade(marks, req[m].user)
    /\ IF req[m].op = "ban" THEN Move(m, "enforce") ELSE Done(m)
    /\ UNCHANGED <<plan, left, clock, bans, matches, last, conn, kept, board, sweep>>

\* wrong: only the identity is looked for
CaughtByName(handles, c) == <<"user", conn[c].user>> \in handles
\* enforceBan
Caught(handles, c) == handles \cap Handles(c) # {}

Enforce(m) ==
    /\ Step(m, "enforce")
    /\ conn' = Shut({c \in Conns : InHub(c) /\ ~IsOwner(conn[c].user) /\ Caught(req[m].handles, c)})
    /\ Move(m, "tell")
    /\ UNCHANGED <<plan, left, clock, store, kept, board, sweep>>

---------------------------------------------------------------------------
(* The list of bans.                                                        *)

\* BanByID, DeleteBan; what it caught goes with it.
Lift(m) ==
    /\ Spend("lift") /\ Moderates(m)
    /\ \E b \in DOMAIN bans :
        /\ bans' = Only(bans, DOMAIN bans \ {b})
        /\ matches' = Only(matches, {h \in DOMAIN matches : matches[h] # b})
        /\ req' = [req EXCEPT ![m] = [Free EXCEPT !.at = "tell", !.op = "lift", !.ban = b]]
    /\ UNCHANGED <<plan, clock, users, tokens, marks, last, conn, kept, board, sweep>>

\* ban.created, ban.deleted
Listed(op, b, list) == IF op = "ban" THEN list \cup {b} ELSE list \ {b}

\* To every moderator's connection.
Tell(m) ==
    /\ Step(m, "tell")
    /\ board' = [c \in Conns |-> IF Staff(c) THEN Listed(req[m].op, req[m].ban, board[c]) ELSE board[c]]
    /\ Done(m)
    /\ UNCHANGED <<plan, left, clock, store, conn, kept, sweep>>

\* handleBanList: expired ones stay in it.
List(m) ==
    /\ Spend("list") /\ Moderates(m)
    /\ req' = [req EXCEPT ![m] = [Free EXCEPT !.at = "show", !.op = "list", !.list = DOMAIN bans]]
    /\ UNCHANGED <<plan, clock, store, conn, kept, board, sweep>>

Show(m) ==
    /\ Step(m, "show") /\ board' = [board EXCEPT ![m] = req[m].list] /\ Done(m)
    /\ UNCHANGED <<plan, left, clock, store, conn, kept, sweep>>

---------------------------------------------------------------------------
(* sweepRetention, once a day.                                              *)

Stale(at) == at + Keep < clock

Day ==
    /\ clock < MaxTime /\ plan.days # {0} /\ sweep = "rest"
    /\ clock' = clock + 1 /\ sweep' = "tokens"
    /\ UNCHANGED <<plan, left, store, conn, kept, req, board>>

\* PruneStaleTokens
SweepTokens ==
    /\ sweep = "tokens" /\ sweep' = "marks"
    /\ tokens' = {t \in tokens : ~Stale(t.used)}
    /\ UNCHANGED <<plan, left, clock, users, marks, bans, matches, last, conn, kept, req, board>>

\* PruneIdentityMarks
SweepMarks ==
    /\ sweep = "marks" /\ sweep' = "guests"
    /\ marks' = {k \in marks : ~Stale(k.seen)}
    /\ UNCHANGED <<plan, left, clock, users, tokens, bans, matches, last, conn, kept, req, board>>

\* PruneStaleGuests: nobody who could come back.
SweepGuests ==
    /\ sweep = "guests" /\ sweep' = "rest"
    /\ LET gone == {u \in DOMAIN users : ~users[u].account /\ Stale(users[u].seen) /\ ~\E t \in tokens : t.user = u}
       IN  users' = Only(users, DOMAIN users \ gone) /\ marks' = {k \in marks : k.user \notin gone}
    /\ UNCHANGED <<plan, left, clock, tokens, bans, matches, last, conn, kept, req, board>>

---------------------------------------------------------------------------

Init ==
    /\ plan \in Plans /\ left = plan.left /\ clock = 0
    /\ users = plan.users
    /\ tokens = {[no |-> u, user |-> u, used |-> 0] : u \in DOMAIN plan.users}
    /\ marks = plan.marks
    /\ bans = <<>> /\ matches = <<>>
    /\ last = [user |-> Len(plan.users), token |-> Len(plan.users), ban |-> 0, conn |-> 9]
    /\ conn = [c \in Conns |-> IF plan.in[c] = 0 THEN Out
                               ELSE [Out EXCEPT !.at = "on", !.user = plan.in[c], !.token = plan.in[c], !.no = plan.in[c]]]
    /\ kept = plan.kept
    /\ req = [c \in Conns |-> Free] /\ board = [c \in Conns |-> {}] /\ sweep = "rest"

Next ==
    \/ \E c \in Conns :
        \/ AsGuest(c) \/ WithToken(c) \/ WithPassword(c) \/ Screen(c) \/ Mint(c) \/ Touch(c) \/ Grant(c)
        \/ Seat(c) \/ Record(c) \/ Register(c) \/ Logout(c) \/ End(c)
    \/ \E m \in Conns :
        \/ Ban(m) \/ StoreBan(m) \/ Kick(m) \/ CloseTarget(m) \/ DropTokens(m) \/ DropUser(m) \/ Enforce(m)
        \/ Lift(m) \/ Tell(m) \/ List(m) \/ Show(m)
    \/ Day \/ SweepTokens \/ SweepMarks \/ SweepGuests

Spec == Init /\ [][Next]_vars

---------------------------------------------------------------------------

\* The tables to begin with refer to each other, whoever is in is somebody and in
\* once, and where requests take turns nobody else comes in.
PlansFit ==
    /\ MaxTime \in Nat
    /\ \A pl \in Plans :
        LET there == DOMAIN pl.users
        IN  /\ pl.users \in Seq([account : BOOLEAN, seen : Nat]) /\ pl.owner \in there /\ pl.days \subseteq Nat
            /\ \A k \in pl.marks : k.user \in there
            /\ \A c \in DOMAIN pl.place : pl.in[c] # 0 =>
                    pl.in[c] \in there /\ \A x \in DOMAIN pl.place : pl.in[x] = pl.in[c] => x = c
            /\ "enter" \in DOMAIN pl.left /\ (pl.turns => pl.left["enter"] = 0)

\* Every table refers to rows that are there, and every connection is
\* somewhere on its way.
TypeOK ==
    /\ clock \in 0..MaxTime /\ sweep \in {"rest", "tokens", "marks", "guests"}
    /\ \A t \in tokens : t.user \in DOMAIN users /\ t.no \in 1..last.token
    /\ \A k \in marks : k.user \in DOMAIN users
    /\ DOMAIN bans \subseteq 1..last.ban /\ \A h \in DOMAIN matches : matches[h] \in DOMAIN bans
    /\ \A c \in Conns :
        /\ conn[c].at \in {"out", "asked", "passed", "known", "seated", "on"}
        /\ board[c] \subseteq 1..last.ban
        /\ \A x \in Conns : InHub(c) /\ InHub(x) /\ conn[c].user = conn[x].user => x = c

\* A ban puts out everybody it catches: who is in although a ban in force has
\* their name, address or machine had been screened before the ban was stored
\* and took the place only after enforceBan had gone through the sessions.
\* The owner is in whatever it says.
OnlyRacersSlip ==
    \A c \in Conns :
        InHub(c) /\ ~conn[c].closing /\ ~IsOwner(conn[c].user)
            => \A b \in Catching(Handles(c)) : Pending(b) \/ b \in conn[c].missed

\* No ban reaches the address or the machine of the connection it was issued
\* from, whichever bans its handles were taken over from: moderators do not
\* lock themselves out.
OwnDoorOpen ==
    \A h \in DOMAIN matches : h \notin HandlesAt(plan.place[bans[matches[h]].by])

\* One request at a time: a moderator who has fetched the list keeps seeing
\* exactly the bans that are stored, from the events alone.
BoardIsTable ==
    plan.turns => \A c \in Conns :
        Staff(c) /\ At(c, "on") /\ plan.in[c] # 0 /\ (\A m \in Conns : Step(m, "free")) => board[c] = DOMAIN bans

\* Who was kicked is put out, and nobody is in whose identity is gone.
\* handlers_user.go says that a kick disconnects its user; it closes the one
\* session that it found before it revoked the tokens.
NobodyLeftIn ==
    (\A m \in Conns : Step(m, "free"))
        => \A c \in Conns : At(c, "on") /\ ~conn[c].closing => conn[c].user \in DOMAIN users
================================================================================
