---------------------------- MODULE DiscordBridge ----------------------------
(***************************************************************************)
(* The bridge between channels here and channels on Discord.  A link pairs *)
(* two of them; deliveries wait on one queue per link and a goroutine of   *)
(* its own runs them in order.  The links are cached, and the cache also   *)
(* is the guard against carrying a message back to where it came from.     *)
(*                                                                         *)
(* Requests, handlers and deliveries interleave between any two of their   *)
(* statements: taking a queue and putting a job on it are two steps, and   *)
(* so are reading the links and installing them.  A message is its version *)
(* and where it came from; texts, cards, names, pictures and files are     *)
(* left out, but a media channel only takes messages that carry a file.    *)
(***************************************************************************)
EXTENDS Naturals, Sequences, FiniteSets

CONSTANTS Plans,      \* what may happen and how often: a behaviour picks one
          MaxRetries  \* how often the client repeats a call that failed

VARIABLES
    plan,     \* the plan of this behaviour
    left,     \* what may still happen, by kind
    enabled,  \* config.Relay.Enabled
    file,     \* config.Relay.Links: at most one link named in the configuration
    rows,     \* relay_links
    lastLink, \* the last id given to a link: ids are never reused
    senders,  \* the webhooks rows the relay made
    cached,   \* byChannel, byDiscord and the guard sets, all of these links
    pairs,    \* relay_messages
    queueOf,  \* discordRelay.queues, by link
    queues,   \* every queue ever made, and what its worker is doing
    client,   \* discordRelay.client, 0 for none
    cancel,   \* discordRelay.cancel, as the client it stops
    running,  \* the clients whose context has not been cancelled
    lastClient,
    feeds,    \* what Discord sent to each client and it has not read yet
    here,     \* the messages of this server
    there,    \* the messages on Discord
    hand,     \* what each request, and each client's read loop, is doing
    removed   \* history: the Discord channels whose link was removed

settingsVars == <<enabled, file>>
rowVars == <<rows, lastLink, senders, cached, removed>>
linkVars == <<rowVars, pairs>>
queueVars == <<queueOf, queues>>
clientVars == <<client, cancel, running, lastClient>>
textVars == <<here, there, feeds>>
vars == <<plan, left, settingsVars, linkVars, queueVars, clientVars, textVars, hand>>

\* The Discord webhooks, and the channel each of them posts into.
PlaceOf == [p1 |-> "p", p2 |-> "p", q1 |-> "q"]
Dirs == {"both", "to_aural", "to_discord"}

Spend(kind) == left[kind] > 0 /\ left' = [left EXCEPT ![kind] = @ - 1]

\* The goroutines that enqueue: requests of members and of administrators, and
\* the read loop of every client.
Actors == ({"member"} \X (1..plan.members)) \cup ({"admin"} \X (1..plan.admins))
            \cup ({"loop"} \X (1..plan.clients))

Idle == [at |-> "idle"]
Set(a, h) == hand' = [hand EXCEPT ![a] = h]
Ready(a, kind) == a[1] = kind /\ hand[a] = Idle

ToAural(l) == l.on /\ l.dir \in {"both", "to_aural"}
ToDiscord(l) == l.on /\ l.dir \in {"both", "to_discord"}

\* wrong: only links that write here have their webhooks recognised
OwnWebhooksOfSenders == {l.hook : l \in {k \in cached : k.source # 0}}
OwnWebhooks == {l.hook : l \in cached}
IsOwnEcho(m) == m.hook \in OwnWebhooks
\* Whether the relay itself wrote a message here.
IsInbound(m) == m.sender # 0 /\ m.sender \in {l.source : l \in cached}

Gone == [gone |-> TRUE]
Pair(id) == {p \in pairs : p.here = id}
PairOf(link, id) == {p \in pairs : p.link = link /\ p.there = id}
Jobs == {"in", "inEdit", "inDelete", "out", "outEdit", "outDelete"}

TypeOK ==
    /\ plan \in Plans /\ enabled \in BOOLEAN
    /\ \A l \in rows \cup cached :
            /\ l.id \in 1..lastLink /\ l.dir \in Dirs /\ l.on \in BOOLEAN
            /\ l.hook \in DOMAIN PlaceOf /\ l.source \in 0..Len(senders)
    /\ \A k, l \in rows : k # l => k.id # l.id /\ k.chan # l.chan /\ k.place # l.place
    /\ \A p \in pairs : p.here \in 1..Len(here) /\ p.there \in 1..Len(there)
    /\ \A l \in DOMAIN queueOf : queueOf[l] \in 1..Len(queues)
    /\ \A q \in 1..Len(queues) : \A i \in 1..Len(queues[q].jobs) : queues[q].jobs[i].do \in Jobs
    /\ {client, cancel} \subseteq 0..lastClient /\ running \subseteq 1..lastClient
    /\ DOMAIN hand = Actors

FirstLink == [id |-> 1, chan |-> "text", place |-> "p", hook |-> "p1", dir |-> "both",
              on |-> TRUE, edits |-> TRUE, source |-> 0]

Init ==
    /\ plan \in Plans /\ left = plan.left
    /\ enabled = TRUE /\ file = plan.file
    /\ rows = {[FirstLink EXCEPT !.chan = plan.chan]} /\ lastLink = 1
    /\ senders = <<>> /\ cached = rows /\ pairs = {} /\ removed = {}
    /\ queueOf = <<>> /\ queues = <<>>
    /\ client = 1 /\ cancel = 1 /\ running = {1} /\ lastClient = 1
    /\ feeds = [g \in 1..plan.clients |-> <<>>]
    /\ here = <<>> /\ there = <<>>
    /\ hand = [a \in Actors |-> Idle]

---------------------------------------------------------------------------
(* Members here, and people on Discord.                                     *)

Stored(a, do, id, m) == Set(a, [at |-> "stored", do |-> do, id |-> id, msg |-> m])

\* A message or a media post is stored; what follows is broadcast and relayed.
Write(a) ==
    /\ Ready(a, "member") /\ Spend("write")
    /\ LET m == [chan |-> plan.chan, ver |-> 0, sender |-> 0, of |-> 0]
       IN  here' = Append(here, m) /\ Stored(a, "out", Len(here) + 1, m)
    /\ UNCHANGED <<plan, settingsVars, linkVars, queueVars, clientVars, there, feeds>>

\* Only the author edits, so a message that came from Discord is not edited here.
Edit(a) ==
    /\ Ready(a, "member") /\ Spend("edit")
    /\ \E id \in 1..Len(here) :
        /\ here[id] # Gone /\ here[id].sender = 0
        /\ here' = [here EXCEPT ![id].ver = @ + 1]
        /\ Stored(a, "outEdit", id, here'[id])
    /\ UNCHANGED <<plan, settingsVars, linkVars, queueVars, clientVars, there, feeds>>

Delete(a) ==
    /\ Ready(a, "member") /\ Spend("delete")
    /\ \E id \in 1..Len(here) :
        /\ here[id] # Gone /\ (plan.moderates \/ here[id].sender = 0)
        /\ here' = [here EXCEPT ![id] = Gone]
        /\ Stored(a, "outDelete", id, here[id])
    /\ UNCHANGED <<plan, settingsVars, linkVars, queueVars, clientVars, there, feeds>>

\* Discord tells every client that is connected.
Tell(do, id, m) ==
    feeds' = [g \in DOMAIN feeds |-> IF g \in running
                THEN Append(feeds[g], [do |-> do, id |-> id, msg |-> m]) ELSE feeds[g]]

Say ==
    /\ Spend("say")
    /\ \E f \in BOOLEAN, place \in {l.place : l \in rows} :
        LET m == [place |-> place, ver |-> 0, hook |-> "none", of |-> 0, file |-> f]
        IN  there' = Append(there, m) /\ Tell("in", Len(there) + 1, m)
    /\ UNCHANGED <<plan, settingsVars, linkVars, queueVars, clientVars, here, hand>>

Amend ==
    /\ Spend("amend")
    /\ \E id \in 1..Len(there) :
        /\ there[id] # Gone /\ there[id].hook = "none"
        /\ there' = [there EXCEPT ![id].ver = @ + 1] /\ Tell("inEdit", id, there'[id])
    /\ UNCHANGED <<plan, settingsVars, linkVars, queueVars, clientVars, here, hand>>

Withdraw ==
    /\ Spend("withdraw")
    /\ \E id \in 1..Len(there) :
        /\ there[id] # Gone /\ (plan.moderates \/ there[id].hook = "none")
        /\ there' = [there EXCEPT ![id] = Gone] /\ Tell("inDelete", id, there[id])
    /\ UNCHANGED <<plan, settingsVars, linkVars, queueVars, clientVars, here, hand>>

---------------------------------------------------------------------------
(* From a handler onto the queue of a link.                                 *)

\* outboundLink for messages; posts have calls of their own, and the body of a
\* post is not carried when it is edited.
Crosses(do, m, l) ==
    /\ ToDiscord(l) /\ (do = "out" \/ l.edits)
    /\ do = "outEdit" => m.chan = "text"
    /\ m.chan = "text" \/ do = "out" => ~IsInbound(m) /\ client # 0

Look(a) ==
    /\ hand[a].at = "stored"
    /\ LET job == [do |-> hand[a].do, id |-> hand[a].id, msg |-> hand[a].msg]
           ls == {l \in cached : l.chan = job.msg.chan /\ Crosses(job.do, job.msg, l)}
       IN  IF ls = {} THEN Set(a, Idle)
           ELSE \E l \in ls : Set(a, [at |-> "linked", link |-> l, job |-> job])
    /\ UNCHANGED <<plan, left, settingsVars, linkVars, queueVars, clientVars, textVars>>

Wanted(e, l) ==
    /\ ToAural(l) /\ (e.do = "in" \/ l.edits)
    /\ e.do = "inDelete" \/ ~IsOwnEcho(e.msg)

\* onDiscordMessage, onDiscordEdit and onDiscordDelete, in the read loop.
Read(a) ==
    /\ Ready(a, "loop") /\ a[2] \in running /\ feeds[a[2]] # <<>>
    /\ LET e == Head(feeds[a[2]])
           ls == {l \in cached : l.place = e.msg.place /\ Wanted(e, l)}
       IN  IF ls = {} THEN UNCHANGED hand
           ELSE \E l \in ls : Set(a, [at |-> "linked", link |-> l, job |-> e])
    /\ feeds' = [feeds EXCEPT ![a[2]] = Tail(@)]
    /\ UNCHANGED <<plan, left, settingsVars, linkVars, queueVars, clientVars, here, there>>

\* wrong: the newest delivery is run first
QueuedFirst(jobs, job) == <<job>> \o jobs
Queued(jobs, job) == Append(jobs, job)

NewQueue == [jobs |-> <<>>, retired |-> FALSE, doing |-> Idle]

Take(a) ==
    /\ hand[a].at = "linked"
    /\ LET id == hand[a].link.id
           known == id \in DOMAIN queueOf
           q == IF known THEN queueOf[id] ELSE Len(queues) + 1
       IN  /\ queueOf' = [k \in DOMAIN queueOf \cup {id} |-> IF k = id THEN q ELSE queueOf[k]]
           /\ queues' = IF known THEN queues ELSE Append(queues, NewQueue)
           /\ Set(a, [at |-> "taken", queue |-> q, link |-> hand[a].link, job |-> hand[a].job])
    /\ UNCHANGED <<plan, left, settingsVars, linkVars, clientVars, textVars>>

\* A queue that is full drops the delivery.
Put(a) ==
    /\ hand[a].at = "taken"
    /\ LET q == hand[a].queue
           e == hand[a].job
           job == [link |-> hand[a].link, do |-> e.do, id |-> e.id, msg |-> e.msg]
       IN  queues' = IF Len(queues[q].jobs) < plan.depth
                     THEN [queues EXCEPT ![q].jobs = Queued(@, job)] ELSE queues
    /\ Set(a, Idle)
    /\ UNCHANGED <<plan, left, settingsVars, linkVars, queueOf, clientVars, textVars>>

---------------------------------------------------------------------------
(* The worker of a queue.                                                   *)

Doing(q, do, at) == queues[q].doing.at = at /\ queues[q].doing.job.do = do
Job(q) == queues[q].doing.job
Finished(q) == [queues EXCEPT ![q].doing = Idle]

TakeJob(q) ==
    /\ queues[q].doing = Idle /\ queues[q].jobs # <<>>
    /\ LET d == [at |-> "start", job |-> Head(queues[q].jobs), tries |-> 0, made |-> 0,
                 sender |-> 0, links |-> {}]
       IN  queues' = [queues EXCEPT ![q].doing = d, ![q].jobs = Tail(@)]
    /\ UNCHANGED <<plan, left, settingsVars, linkVars, queueOf, clientVars, textVars, hand>>

\* drain and flush: a worker whose link is gone leaves once nothing is queued.
Leave(q) ==
    /\ queues[q].doing = Idle /\ queues[q].retired /\ queues[q].jobs = <<>>
    /\ queues' = [queues EXCEPT ![q].doing = [at |-> "left"]]
    /\ UNCHANGED <<plan, left, settingsVars, linkVars, queueOf, clientVars, textVars, hand>>

\* Posting through the webhook.  Discord may refuse, and it may have stored the
\* message and still answer with an error: the client asks it again.
Outgoing(job) == [place |-> job.link.place, ver |-> job.msg.ver, hook |-> job.link.hook,
                  of |-> job.id, file |-> FALSE]
Again(q) == IF queues[q].doing.tries < MaxRetries THEN [queues EXCEPT ![q].doing.tries = @ + 1]
            ELSE Finished(q)
Posting(q) ==
    /\ LET m == Outgoing(Job(q))
           stored == there' = Append(there, m) /\ Tell("in", Len(there) + 1, m)
       IN  \/ /\ stored /\ UNCHANGED left
              /\ queues' = [queues EXCEPT ![q].doing.at = "executed", ![q].doing.made = Len(there) + 1]
           \/ Spend("refuse") /\ UNCHANGED <<there, feeds>> /\ queues' \in {Again(q), Finished(q)}
           \/ Spend("late") /\ stored /\ queues' = Again(q)
    /\ UNCHANGED <<plan, settingsVars, linkVars, queueOf, clientVars, here, hand>>

Execute(q) == Doing(q, "out", "start") /\ Job(q).msg.chan = "text" /\ Posting(q)
ExecutePost(q) == Doing(q, "out", "start") /\ Job(q).msg.chan = "media" /\ Posting(q)

\* A pairing is kept per message here, and its link has to exist.
Mapped(link, id, copy, origin) ==
    IF link.id \in {l.id : l \in rows}
    THEN (pairs \ Pair(id)) \cup {[here |-> id, there |-> copy, link |-> link.id, origin |-> origin]}
    ELSE pairs

RecordPosted(q) ==
    /\ Doing(q, "out", "executed")
    /\ pairs' = Mapped(Job(q).link, Job(q).id, queues[q].doing.made, "aural")
    /\ queues' = Finished(q)
    /\ UNCHANGED <<plan, left, settingsVars, rowVars, queueOf, clientVars, textVars, hand>>

\* A webhook reaches only what was posted through it.
Reachable(copy, link) == there[copy] # Gone /\ there[copy].hook = link.hook

\* An edit travels away from where the message was written; a copy Discord does
\* not have any more is forgotten.
Written(q) == {p \in Pair(Job(q).id) : p.origin = "aural"}
PushEdit(q) ==
    /\ Doing(q, "outEdit", "start")
    /\ LET found == {p \in Written(q) : Reachable(p.there, Job(q).link)}
       IN  \/ /\ pairs' = pairs \ (Written(q) \ found) /\ UNCHANGED left
              /\ IF found = {} THEN UNCHANGED <<there, feeds>>
                 ELSE \E p \in found :
                    /\ there' = [there EXCEPT ![p.there].ver = Job(q).msg.ver]
                    /\ Tell("inEdit", p.there, there'[p.there])
           \/ Spend("refuse") /\ UNCHANGED <<pairs, there, feeds>>
    /\ queues' = Finished(q)
    /\ UNCHANGED <<plan, settingsVars, rowVars, queueOf, clientVars, here, hand>>

PushDelete(q) ==
    /\ Doing(q, "outDelete", "start")
    /\ LET found == {p \in Written(q) : Reachable(p.there, Job(q).link)}
       IN  \/ /\ pairs' = pairs \ Written(q) /\ UNCHANGED left
              /\ IF found = {} THEN UNCHANGED <<there, feeds>>
                 ELSE \E p \in found :
                    /\ there' = [there EXCEPT ![p.there] = Gone]
                    /\ Tell("inDelete", p.there, there[p.there])
           \/ Spend("refuse") /\ UNCHANGED <<pairs, there, feeds>>
    /\ queues' = Finished(q)
    /\ UNCHANGED <<plan, settingsVars, rowVars, queueOf, clientVars, here, hand>>

\* A media channel takes only what carries a file.
Welcome(job) == job.link.chan = "text" \/ job.msg.file

\* inboundWebhook: the link names the webhooks row it writes under, or one is
\* made and the links are loaded again.  Automatic moderation looks at a post
\* before that, and at a message after it.
HasSender(link) == link.source # 0 /\ senders[link.source] # "gone"
Provision(q) ==
    /\ Doing(q, "in", "start")
    /\ LET link == Job(q).link
           made == Len(senders) + 1
           goto(at, s) == queues' = [queues EXCEPT ![q].doing.at = at, ![q].doing.sender = s]
       IN  \/ /\ (~Welcome(Job(q)) /\ UNCHANGED left) \/ (link.chan = "media" /\ Spend("screen"))
              /\ queues' = Finished(q) /\ UNCHANGED <<senders, rows>>
           \/ /\ Welcome(Job(q)) /\ HasSender(link) /\ goto("write", link.source)
              /\ UNCHANGED <<senders, rows, left>>
           \/ /\ Welcome(Job(q)) /\ ~HasSender(link) /\ goto("provisioned", made)
              /\ senders' = Append(senders, link.chan)
              /\ rows' = {IF l.id = link.id THEN [l EXCEPT !.source = made] ELSE l : l \in rows}
              /\ UNCHANGED left
    /\ UNCHANGED <<plan, settingsVars, lastLink, cached, pairs, removed, queueOf, clientVars,
                   textVars, hand>>

ReloadInDelivery(q) ==
    /\ Doing(q, "in", "provisioned")
    /\ queues' = [queues EXCEPT ![q].doing.at = "loaded", ![q].doing.links = rows]
    /\ UNCHANGED <<plan, left, settingsVars, linkVars, queueOf, clientVars, textVars, hand>>

\* setLinks: the caches are replaced, and the queues of links that are gone retired.
Ids(links) == {l.id : l \in links}
Retired(q) == [q EXCEPT !.retired = TRUE]
Install(links, qs) ==
    /\ cached' = links
    /\ queueOf' = [id \in DOMAIN queueOf \cap Ids(links) |-> queueOf[id]]
    /\ queues' = [q \in DOMAIN qs |->
            IF q \in {queueOf[id] : id \in DOMAIN queueOf \ Ids(links)} THEN Retired(qs[q]) ELSE qs[q]]

InstallInDelivery(q) ==
    /\ Doing(q, "in", "loaded")
    /\ Install(queues[q].doing.links, [queues EXCEPT ![q].doing.at = "write"])
    /\ UNCHANGED <<plan, left, settingsVars, rows, lastLink, senders, pairs, removed, clientVars,
                   textVars, hand>>

\* The message is stored, but files that cannot be attached take it away again.
Writing(q) ==
    /\ here' = Append(here, [chan |-> Job(q).link.chan, ver |-> Job(q).msg.ver,
                             sender |-> queues[q].doing.sender, of |-> Job(q).id])
    /\ queues' = [queues EXCEPT ![q].doing.at = "written", ![q].doing.made = Len(here) + 1]
    /\ UNCHANGED left
Undone(q) == Spend("screen") /\ queues' = Finished(q) /\ UNCHANGED here

\* Moderation looks at a message before it is stored.
WriteIn(q) ==
    /\ Doing(q, "in", "write") /\ Job(q).link.chan = "text" /\ (Writing(q) \/ Undone(q))
    /\ UNCHANGED <<plan, settingsVars, linkVars, queueOf, clientVars, there, feeds, hand>>

WritePostIn(q) ==
    /\ Doing(q, "in", "write") /\ Job(q).link.chan = "media" /\ (Writing(q) \/ Undone(q))
    /\ UNCHANGED <<plan, settingsVars, linkVars, queueOf, clientVars, there, feeds, hand>>

RecordWritten(q) ==
    /\ Doing(q, "in", "written")
    /\ pairs' = Mapped(Job(q).link, queues[q].doing.made, Job(q).id, "discord")
    /\ queues' = Finished(q)
    /\ UNCHANGED <<plan, left, settingsVars, rowVars, queueOf, clientVars, textVars, hand>>

\* The message here that a message on Discord produced.
Produced(q) == {p \in PairOf(Job(q).link.id, Job(q).id) :
                    p.origin = "discord" /\ here[p.here] # Gone}

ApplyEdit(q) ==
    /\ Doing(q, "inEdit", "start")
    /\ \/ /\ UNCHANGED left
          /\ IF Produced(q) = {} THEN UNCHANGED here
             ELSE \E p \in Produced(q) : here' = [here EXCEPT ![p.here].ver = Job(q).msg.ver]
       \/ Spend("screen") /\ UNCHANGED here
    /\ queues' = Finished(q)
    /\ UNCHANGED <<plan, settingsVars, linkVars, queueOf, clientVars, there, feeds, hand>>

\* The message, or the post it is the body of, goes with its pairing.
ApplyDelete(q) ==
    /\ Doing(q, "inDelete", "start")
    /\ IF Produced(q) = {} THEN UNCHANGED <<here, pairs>>
       ELSE \E p \in Produced(q) : here' = [here EXCEPT ![p.here] = Gone] /\ pairs' = pairs \ {p}
    /\ queues' = Finished(q)
    /\ UNCHANGED <<plan, left, settingsVars, rowVars, queueOf, clientVars, there, feeds, hand>>

\* Housekeeping collects the pairings whose message is gone.
Sweep ==
    /\ Spend("sweep") /\ pairs' = {p \in pairs : here[p.here] # Gone}
    /\ UNCHANGED <<plan, settingsVars, rowVars, queueVars, clientVars, textVars, hand>>

---------------------------------------------------------------------------
(* Administrators: links, the settings, and the client.                     *)

\* What an update asks for; the source is not among the columns it writes.
Changes(l) ==
    CASE plan.change = "narrow" ->
            {[l EXCEPT !.on = c.on, !.dir = c.dir, !.edits = c.edits] :
                c \in [on : BOOLEAN, dir : {"both", "to_aural"}, edits : BOOLEAN]}
      [] plan.change = "rehook" -> {[l EXCEPT !.hook = "p2"]}
      [] plan.change = "repoint" -> {[l EXCEPT !.chan = "media", !.hook = "q1", !.place = "q"]}

\* A request reads the row, asks Discord about the webhook, and writes the whole
\* of it.  A guild that becomes visible writes back what is cached.
ReadLink(a) ==
    /\ \/ Ready(a, "admin") /\ Spend("change")
            /\ \E l \in rows : \E n \in Changes(l) : Set(a, [at |-> "change", link |-> n])
       \/ Ready(a, "loop") /\ a[2] \in running /\ Spend("guild")
            /\ \E l \in cached : Set(a, [at |-> "change", link |-> l])
    /\ UNCHANGED <<plan, textVars, settingsVars, linkVars, queueVars, clientVars>>

\* wrong: only Discord's side is looked at
FreeThere(l) == \A k \in rows : k.id = l.id \/ k.place # l.place
\* One link per channel on either side.
Free(l) == \A k \in rows : k.id = l.id \/ (k.chan # l.chan /\ k.place # l.place)

UpdateLink(a) ==
    /\ hand[a].at = "change"
    /\ LET n == hand[a].link
           old == {l \in rows : l.id = n.id}
       IN  IF old # {} /\ Free(n)
           THEN /\ rows' = (rows \ old) \cup {[n EXCEPT !.source = l.source] : l \in old}
                /\ removed' = removed \ {n.place} /\ Set(a, [at |-> "wrote"])
           ELSE UNCHANGED <<rows, removed>> /\ Set(a, Idle)
    /\ UNCHANGED <<plan, left, textVars, settingsVars, lastLink, senders, cached, pairs, queueVars,
                   clientVars>>

NewLink(chan, hook) ==
    [FirstLink EXCEPT !.id = lastLink + 1, !.chan = chan, !.hook = hook, !.place = PlaceOf[hook]]

CreateLink(a) ==
    /\ Ready(a, "admin") /\ Spend("create")
    /\ \E hook \in plan.hooks : LET n == NewLink(plan.chan, hook) IN
        /\ Free(n)
        /\ rows' = rows \cup {n} /\ lastLink' = n.id /\ removed' = removed \ {n.place}
    /\ Set(a, [at |-> "wrote"])
    /\ UNCHANGED <<plan, textVars, settingsVars, senders, cached, pairs, queueVars, clientVars>>

\* What was carried stays on both sides, the pairings of the link do not.
DeleteLink(a) ==
    /\ Ready(a, "admin") /\ Spend("unlink")
    /\ \E l \in rows :
        /\ rows' = rows \ {l} /\ pairs' = {p \in pairs : p.link # l.id}
        /\ removed' = removed \cup {l.place}
    /\ Set(a, [at |-> "wrote"])
    /\ UNCHANGED <<plan, textVars, settingsVars, lastLink, senders, cached, queueVars, clientVars>>

\* The webhooks row is removed from the list of the channel's webhooks.
DropSender(a) ==
    /\ Ready(a, "admin") /\ Spend("drop")
    /\ \E s \in DOMAIN senders : senders' = [senders EXCEPT ![s] = "gone"]
    /\ UNCHANGED <<plan, textVars, settingsVars, rows, lastLink, cached, removed, pairs, queueVars,
                   clientVars, hand>>

Reload(a) ==
    /\ hand[a].at = "wrote" /\ Set(a, [at |-> "loaded", links |-> rows])
    /\ UNCHANGED <<plan, left, textVars, settingsVars, linkVars, queueVars, clientVars>>

InstallLinks(a) ==
    /\ hand[a].at = "loaded" /\ Install(hand[a].links, queues) /\ Set(a, Idle)
    /\ UNCHANGED <<plan, left, textVars, settingsVars, rows, lastLink, senders, pairs, removed,
                   clientVars>>

\* relay.configure writes the settings, and forgets the links of the file.
Configure(a) ==
    /\ Ready(a, "admin") /\ Spend("configure")
    /\ enabled' \in BOOLEAN /\ file' = {} /\ Set(a, [at |-> "restart"])
    /\ UNCHANGED <<plan, textVars, linkVars, queueVars, clientVars>>

Stop == client' = 0 /\ cancel' = 0 /\ running' = running \ {cancel}

\* Restart reads the settings, and stops what runs before it starts another.
Halt(a) ==
    /\ hand[a].at = "restart" /\ Stop
    /\ Set(a, IF enabled THEN [at |-> "stopped"] ELSE Idle)
    /\ UNCHANGED <<plan, left, textVars, settingsVars, linkVars, queueVars, lastClient>>

Begin(a) ==
    /\ hand[a].at = "stopped" /\ lastClient < plan.clients
    /\ lastClient' = lastClient + 1 /\ client' = lastClient' /\ cancel' = lastClient'
    /\ running' = running \cup {lastClient'} /\ Set(a, Idle)
    /\ UNCHANGED <<plan, left, textVars, settingsVars, linkVars, queueVars>>

\* Discord refuses the token: the client ends, and is forgotten if it is current.
Refused ==
    /\ Spend("fatal")
    /\ \E g \in running :
        /\ running' = running \ {g} /\ client' = IF client = g THEN 0 ELSE client
    /\ UNCHANGED <<plan, settingsVars, linkVars, queueVars, cancel, lastClient, textVars, hand>>

\* seedLinksFromConfig: a link of the file is matched by its Discord channel.
Seeded(f) ==
    LET old == {l \in rows : l.place = PlaceOf[f.hook]}
        new == NewLink(f.chan, f.hook)
    IN  IF old = {} THEN IF Free(new) THEN rows \cup {new} ELSE rows
        ELSE {IF l \in old /\ Free([new EXCEPT !.id = l.id])
              THEN [new EXCEPT !.id = l.id, !.source = l.source] ELSE l : l \in rows}

\* The process ends and another starts: requests, queues and clients are gone.
Reboot ==
    /\ Spend("reboot") /\ lastClient < plan.clients
    /\ rows' = IF file = {} THEN rows ELSE Seeded(CHOOSE f \in file : TRUE)
    /\ lastLink' = lastLink + Cardinality({l \in rows' : l.id > lastLink})
    /\ cached' = rows' /\ queueOf' = <<>> /\ queues' = <<>> /\ hand' = [a \in Actors |-> Idle]
    /\ feeds' = [g \in DOMAIN feeds |-> <<>>]
    /\ lastClient' = IF enabled THEN lastClient + 1 ELSE lastClient
    /\ client' = IF enabled THEN lastClient' ELSE 0
    /\ cancel' = client' /\ running' = {client'} \ {0}
    /\ UNCHANGED <<plan, settingsVars, senders, pairs, removed, here, there>>

---------------------------------------------------------------------------
Request(a) ==
    \/ Write(a) \/ Edit(a) \/ Delete(a) \/ Look(a) \/ Read(a) \/ Take(a) \/ Put(a)
    \/ ReadLink(a) \/ UpdateLink(a) \/ CreateLink(a) \/ DeleteLink(a) \/ DropSender(a)
    \/ Reload(a) \/ InstallLinks(a) \/ Configure(a) \/ Halt(a) \/ Begin(a)

Worker(q) ==
    \/ TakeJob(q) \/ Leave(q) \/ Execute(q) \/ ExecutePost(q) \/ RecordPosted(q) \/ PushEdit(q) \/ PushDelete(q)
    \/ Provision(q) \/ ReloadInDelivery(q) \/ InstallInDelivery(q) \/ WriteIn(q)
    \/ WritePostIn(q) \/ RecordWritten(q) \/ ApplyEdit(q) \/ ApplyDelete(q)

Next ==
    \/ \E a \in Actors : Request(a)
    \/ \E q \in DOMAIN queues : Worker(q)
    \/ Say \/ Amend \/ Withdraw \/ Sweep \/ Refused \/ Reboot

---------------------------------------------------------------------------
(* Properties.                                                              *)

Quiet ==
    /\ \A a \in Actors : hand[a] = Idle
    /\ \A q \in DOMAIN queues : queues[q].jobs = <<>> /\ queues[q].doing.at \in {"idle", "left"}
    /\ \A g \in running : feeds[g] = <<>>

\* The messages still there that were carried from one of the other side.
CopiesHere(d) == {i \in DOMAIN here : here[i] # Gone /\ here[i].of = d}
CopiesThere(m) == {i \in DOMAIN there : there[i] # Gone /\ there[i].of = m}

\* No message is carried back to the side it was written on: isOwnEcho, and the
\* origin that relay_messages keeps.
NothingComesBack ==
    /\ \A d \in DOMAIN there : there[d] # Gone /\ there[d].of # 0 => CopiesHere(d) = {}
    /\ \A m \in DOMAIN here : here[m] # Gone /\ here[m].of # 0 => CopiesThere(m) = {}

\* A message never appears twice on the other side, whoever restarts the bridge,
\* changes its links or reboots the server, where restarts do not overlap and
\* Discord does not answer an error for what it has stored.
OneCopyEach ==
    plan.single =>
        /\ \A d \in DOMAIN there : Cardinality(CopiesHere(d)) <= 1
        /\ \A m \in DOMAIN here : Cardinality(CopiesThere(m)) <= 1

\* Once everything is delivered both sides read alike: every message has a copy
\* of its last version, and what was deleted has none.
SidesAgree ==
    plan.calm /\ Quiet =>
        /\ \A m \in DOMAIN here : here[m] # Gone /\ here[m].of = 0 =>
                \E i \in CopiesThere(m) : there[i].ver = here[m].ver
        /\ \A d \in DOMAIN there : there[d] # Gone /\ there[d].of = 0 =>
                \E i \in CopiesHere(d) : here[i].ver = there[d].ver
        /\ \A i \in DOMAIN there : there[i] # Gone /\ there[i].of # 0 => here[there[i].of] # Gone
        /\ \A i \in DOMAIN here : here[i] # Gone /\ here[i].of # 0 => there[here[i].of] # Gone

\* A link an administrator has removed does not come back by itself.
RemovedStaysRemoved == \A l \in rows : l.place \notin removed

\* What the relay writes is written under a webhook of the channel it is in.
SendersInPlace ==
    \A i \in DOMAIN here : here[i] # Gone /\ here[i].sender # 0 =>
        senders[here[i].sender] \in {here[i].chan, "gone"}
=============================================================================
