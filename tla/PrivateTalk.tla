------------------------------ MODULE PrivateTalk ------------------------------
(***************************************************************************)
(* Private conversations: what one person writes to another, rewrites and  *)
(* takes back, the marker each of the two has, and what their clients are  *)
(* told.  A session answers one request at a time; every query and every   *)
(* frame of a request is a step, so the requests of several people mix.    *)
(***************************************************************************)
EXTENDS Integers, FiniteSets

CONSTANT Plans \* who may write to whom, and what may happen: a behaviour picks one

VARIABLES
    plan,
    left,    \* what may still happen, by kind
    people,  \* users: the privacy setting of each, and what their roles allow
    threads, \* dm_conversations, by id
    lines,   \* direct_messages, by id: only the rows that are there
    last,    \* the highest id ever given to a line
    online,  \* whose session the hub knows, and which one of theirs it is
    req,     \* per session, the request it is answering
    shown    \* per client, the lines and the badges it shows

vars == <<plan, left, people, threads, lines, last, online, req, shown>>

Nobody == "nobody"
Free == [at |-> "free", op |-> "none", to |-> Nobody, line |-> 0, thread |-> 0, text |-> 0, reply |-> 0,
         view |-> <<>>, tell |-> {}, counted |-> 0, whose |-> 0]
Blank == [lines |-> <<>>, badge |-> <<>>]

Spend(kind) == left[kind] > 0 /\ left' = [left EXCEPT ![kind] = @ - 1]
With(f, k, v) == [x \in DOMAIN f \cup {k} |-> IF x = k THEN v ELSE f[x]]

---------------------------------------------------------------------------
(* The tables.                                                              *)

\* orderPair: a thread is the same whoever names it first.
Pair(a, b) == {a, b}
Involves(t, p) == p \in threads[t].who
PeerOf(t, p) == IF Involves(t, p) THEN CHOOSE q \in threads[t].who : q # p ELSE Nobody
Between(a, b) == {t \in DOMAIN threads : threads[t].who = Pair(a, b)}

\* EnsureConversation: INSERT OR IGNORE under a unique index.
Opened(a, b) ==
    IF Between(a, b) # {} THEN threads
    ELSE With(threads, Cardinality(DOMAIN threads) + 1, [who |-> Pair(a, b), read |-> [p \in Pair(a, b) |-> 0], at |-> 0])

\* CreateDirectMessage: writing moves the marker of who writes.
Touched(t, p, id) == [threads EXCEPT ![t].at = id, ![t].read[p] = id]

\* MarkConversationRead
Marked(t, p, id) == IF id > threads[t].read[p] THEN [threads EXCEPT ![t].read[p] = id] ELSE threads

Of(t) == {id \in DOMAIN lines : lines[id].thread = t}
Unread(t, p) == Cardinality({id \in Of(t) : id > threads[t].read[p]})

\* LastDirectMessages: the line a list shows under a name.
Newest(t) == IF Of(t) = {} THEN 0 ELSE CHOOSE id \in Of(t) : \A x \in Of(t) : x <= id
\* RepliesForDirectMessages: the line that a line answers may be gone.
Lost(id) == lines[id].reply # 0 /\ lines[id].reply \notin DOMAIN lines
Deleted(id) == [x \in DOMAIN lines \ {id} |-> lines[x]]

Registered(p) == people[p].registered
Accepts(p, other) ==
    CASE people[p].privacy = "none" -> FALSE [] people[p].privacy = "registered" -> Registered(other) [] OTHER -> TRUE

---------------------------------------------------------------------------
(* What a client is told.                                                   *)

\* directMessageView
View(id, t) ==
    [thread |-> t, by |-> lines[id].by, text |-> lines[id].text, reply |-> lines[id].reply, lost |-> Lost(id)]

\* A frame names a thread by the other person in it.
Named(view, t, p) == [view |-> view, peer |-> PeerOf(t, p)]
ShowLine(p, id, view, t) == [shown[p] EXCEPT !.lines = With(@, id, Named(view, t, p))]
Badge(client, peer, n, id) == [client EXCEPT !.badge = With(@, peer, [unread |-> n, line |-> id])]
Unshown(p, id) == [shown[p] EXCEPT !.lines = [x \in DOMAIN @ \ {id} |-> @[x]]]

\* What a client that comes in reads: dm.list and the histories.
Mine(p) == {t \in DOMAIN threads : Involves(t, p)}
Read(p) ==
    [lines |-> [id \in {x \in DOMAIN lines : Involves(lines[x].thread, p)} |->
                    Named(View(id, lines[id].thread), lines[id].thread, p)],
     badge |-> [q \in {PeerOf(t, p) : t \in Mine(p)} |-> LET t == CHOOSE t \in Between(p, q) : TRUE IN [unread |-> Unread(t, p), line |-> Newest(t)]]]

Connect(p) ==
    /\ online[p] <= 0 /\ Spend("connect") /\ online' = [online EXCEPT ![p] = 1 - @]
    /\ shown' = [shown EXCEPT ![p] = Read(p)]
    /\ UNCHANGED <<plan, people, threads, lines, last, req>>

\* The session of a request that is still being answered is not taken away here.
Disconnect(p) ==
    /\ online[p] > 0 /\ req[p] = Free /\ Spend("disconnect") /\ online' = [online EXCEPT ![p] = -@]
    /\ shown' = [shown EXCEPT ![p] = Blank]
    /\ UNCHANGED <<plan, people, threads, lines, last, req>>

---------------------------------------------------------------------------
(* Writing.                                                                 *)

At(p, at) == req[p].at = at
Ask(p, r) == req[p] = Free /\ online[p] > 0 /\ req' = [req EXCEPT ![p] = r]
Move(p, at) == req' = [req EXCEPT ![p].at = at]
Done(p) == req' = [req EXCEPT ![p] = Free]

SetPrivacy(p) ==
    /\ req[p] = Free /\ online[p] > 0 /\ Spend("privacy")
    /\ \E setting \in {"everyone", "registered", "none"} : people' = [people EXCEPT ![p].privacy = setting]
    /\ UNCHANGED <<plan, threads, lines, last, online, req, shown>>

\* otherParty, requireMutualConsent: a setting is read from both ends.
Consent(p, q) == q # p /\ people[p].may /\ Accepts(p, q) /\ Accepts(q, p)

Send(p, q, reply) ==
    /\ Consent(p, q) /\ Spend("send")
    /\ Ask(p, [Free EXCEPT !.at = "open", !.op = "send", !.to = q, !.text = left["send"], !.reply = reply])
    /\ UNCHANGED <<plan, people, threads, lines, last, online, shown>>

\* EnsureConversation
Open(p) ==
    /\ At(p, "open") /\ threads' = Opened(p, req[p].to)
    /\ \E t \in DOMAIN threads' :
        /\ threads'[t].who = Pair(p, req[p].to) /\ (threads' # threads => t \notin DOMAIN threads)
        /\ req' = [req EXCEPT ![p].at = "reply", ![p].thread = t]
    /\ UNCHANGED <<plan, left, people, lines, last, online, shown>>

\* A reply names a line of the same conversation, or is refused.
Answer(p) ==
    /\ At(p, "reply")
    /\ IF req[p].reply = 0 \/ req[p].reply \in Of(req[p].thread) THEN Move(p, "create") ELSE Done(p)
    /\ UNCHANGED <<plan, left, people, threads, lines, last, online, shown>>

Create(p) ==
    /\ At(p, "create") /\ last' = last + 1
    /\ lines' = With(lines, last', [thread |-> req[p].thread, by |-> p, text |-> req[p].text, reply |-> req[p].reply])
    /\ threads' = Touched(req[p].thread, p, last')
    /\ req' = [req EXCEPT ![p].at = "own", ![p].line = last',
                          ![p].view = [thread |-> req[p].thread, by |-> p, text |-> req[p].text,
                                       reply |-> req[p].reply, lost |-> FALSE]]
    /\ UNCHANGED <<plan, left, people, online, shown>>

\* deliverDirectMessage: each of the two gets a frame with a badge that was
\* counted before it goes out.
CountOwn(p) ==
    /\ At(p, "own") /\ req' = [req EXCEPT ![p].at = "tell own", ![p].counted = Unread(req[p].thread, p)]
    /\ UNCHANGED <<plan, left, people, threads, lines, last, online, shown>>

TellOwn(p) ==
    /\ At(p, "tell own") /\ Move(p, "peer")
    /\ shown' = [shown EXCEPT ![p] = Badge(ShowLine(p, req[p].line, req[p].view, req[p].thread), req[p].to, req[p].counted, req[p].line)]
    /\ UNCHANGED <<plan, left, people, threads, lines, last, online>>

CountPeer(p) ==
    /\ At(p, "peer")
    /\ IF online[req[p].to] > 0
       THEN req' = [req EXCEPT ![p].at = "tell peer", ![p].whose = online[req[p].to],
                               ![p].counted = Unread(req[p].thread, req[p].to)]
       ELSE Done(p)
    /\ UNCHANGED <<plan, left, people, threads, lines, last, online, shown>>

\* The frame goes to the session that was found; it may have ended.
TellPeer(p) ==
    /\ At(p, "tell peer") /\ Done(p)
    /\ LET q == req[p].to
       IN  shown' = IF online[q] # req[p].whose THEN shown
                    ELSE [shown EXCEPT ![q] = Badge(ShowLine(q, req[p].line, req[p].view, req[p].thread), p, req[p].counted, req[p].line)]
    /\ UNCHANGED <<plan, left, people, threads, lines, last, online>>

---------------------------------------------------------------------------
(* Rewriting and taking back.                                               *)

\* loadOwnDirectMessage: a line of a thread one is not in does not exist.
Own(p, id) == id \in DOMAIN lines /\ Involves(lines[id].thread, p) /\ lines[id].by = p

Change(p, op, id) ==
    /\ Own(p, id) /\ Spend(op)
    /\ Ask(p, [Free EXCEPT !.at = op, !.op = op, !.line = id, !.thread = lines[id].thread, !.text = 10 + left[op]])
    /\ UNCHANGED <<plan, people, threads, lines, last, online, shown>>

\* wrong: only the other one is looked up
ToldPeer(t, p) == threads[t].who \ {p}
\* notifyBothSides
Told(t, p) == threads[t].who

Rewrite(p) ==
    /\ At(p, "edit") /\ lines' = [lines EXCEPT ![req[p].line].text = req[p].text] /\ Move(p, "reread")
    /\ UNCHANGED <<plan, left, people, threads, last, online, shown>>

\* UpdateDirectMessageContent reads the line back, and resolveDMReply what it answers.
Reread(p) ==
    /\ At(p, "reread")
    /\ req' = [req EXCEPT ![p].at = "notify", ![p].view = View(req[p].line, req[p].thread),
                          ![p].tell = Told(req[p].thread, p)]
    /\ UNCHANGED <<plan, left, people, threads, lines, last, online, shown>>

Remove(p) ==
    /\ At(p, "delete") /\ lines' = Deleted(req[p].line)
    /\ req' = [req EXCEPT ![p].at = "notify", ![p].tell = Told(req[p].thread, p)]
    /\ UNCHANGED <<plan, left, people, threads, last, online, shown>>

Notify(p, q) ==
    /\ At(p, "notify") /\ q \in req[p].tell
    /\ shown' = IF online[q] <= 0 THEN shown
                ELSE [shown EXCEPT ![q] = IF req[p].op = "delete" THEN Unshown(q, req[p].line)
                                          ELSE ShowLine(q, req[p].line, req[p].view, req[p].thread)]
    /\ req' = [req EXCEPT ![p] = IF req[p].tell = {q} THEN Free ELSE [req[p] EXCEPT !.tell = @ \ {q}]]
    /\ UNCHANGED <<plan, left, people, threads, lines, last, online>>

---------------------------------------------------------------------------
(* Markers and the list.                                                    *)

\* handleDMRead; the line is one the client has been shown.
MarkRead(p, q, id) ==
    /\ Between(p, q) # {} /\ id \in DOMAIN shown[p].lines /\ Spend("mark")
    /\ LET t == CHOOSE t \in Between(p, q) : TRUE
       IN  threads' = Marked(t, p, id) /\ Ask(p, [Free EXCEPT !.at = "marked", !.op = "mark", !.to = q, !.thread = t])
    /\ UNCHANGED <<plan, people, lines, last, online, shown>>

CountMarked(p) ==
    /\ At(p, "marked") /\ req' = [req EXCEPT ![p].at = "answer", ![p].line = Newest(req[p].thread),
                              ![p].counted = Unread(req[p].thread, p)]
    /\ UNCHANGED <<plan, left, people, threads, lines, last, online, shown>>

TellMarked(p) ==
    /\ At(p, "answer") /\ Done(p) /\ shown' = [shown EXCEPT ![p] = Badge(@, req[p].to, req[p].counted, req[p].line)]
    /\ UNCHANGED <<plan, left, people, threads, lines, last, online>>

Init ==
    /\ plan \in Plans /\ left = plan.left /\ people = plan.people /\ threads = <<>> /\ lines = <<>> /\ last = 0
    /\ online = [p \in DOMAIN people |-> 1] /\ req = [p \in DOMAIN people |-> Free]
    /\ shown = [p \in DOMAIN people |-> Blank]

Step(p) ==
    \/ Connect(p) \/ Disconnect(p) \/ SetPrivacy(p)
    \/ Open(p) \/ Answer(p) \/ Create(p) \/ CountOwn(p) \/ TellOwn(p) \/ CountPeer(p) \/ TellPeer(p)
    \/ Rewrite(p) \/ Reread(p) \/ Remove(p) \/ CountMarked(p) \/ TellMarked(p)
    \/ \E id \in DOMAIN lines : Change(p, "edit", id) \/ Change(p, "delete", id)
    \/ \E q \in DOMAIN people :
        \/ Notify(p, q)
        \/ \E reply \in {0} \cup DOMAIN shown[p].lines : Send(p, q, reply)
        \/ \E id \in DOMAIN shown[p].lines : MarkRead(p, q, id)

Next == \E p \in DOMAIN people : Step(p)

---------------------------------------------------------------------------
(* Properties.                                                              *)

TypeOK ==
    /\ DOMAIN lines \subseteq 1..last /\ \A id \in DOMAIN lines : lines[id].thread \in DOMAIN threads
    /\ \A t \in DOMAIN threads : \A p \in threads[t].who : threads[t].read[p] \in 0..last
    /\ \A p \in DOMAIN people : req[p].line \in 0..last /\ req[p].tell \subseteq DOMAIN people

\* Two people share one thread however they open it at the same moment, and what is
\* said in it is shown to the two of them alone, each under the name of the other.
OnlyTheTwo ==
    /\ \A t, u \in DOMAIN threads : threads[t].who = threads[u].who => t = u
    /\ \A p \in DOMAIN people : \A id \in DOMAIN shown[p].lines :
        LET line == shown[p].lines[id]
        IN  Involves(line.view.thread, p) /\ threads[line.view.thread].who = Pair(p, line.peer) /\ line.peer # p

\* Once nothing is being answered, a client shows the lines of the table as they
\* stand there, whoever wrote, rewrote and took back what while it came and went.
ShownIsStored ==
    (\A p \in DOMAIN people : req[p] = Free) => \A p \in DOMAIN people : online[p] > 0 =>
        /\ DOMAIN shown[p].lines = {id \in DOMAIN lines : Involves(lines[id].thread, p)}
        /\ \A id \in DOMAIN shown[p].lines : shown[p].lines[id].view.text = lines[id].text

\* "Your own writing is never unread": no line counts for who wrote it, however the
\* writing of the two and what they mark as read mix.
OwnIsRead == \A id \in DOMAIN lines : id <= threads[lines[id].thread].read[lines[id].by]
=============================================================================
